---- MODULE Spec2Model ----
(***************************************************************************)
(* Model of the forecast store (src/src/utils/db_manager.py), its          *)
(* freshness ledger, and the two refresh orchestrators                     *)
(* (src/src/services/data_fetcher.py, unified_data_refresh.py).            *)
(*                                                                         *)
(* One state of the model is one committed state of the SQLite file: every *)
(* action ends at a commit, so a state between two actions is what another *)
(* connection can read.                                                    *)
(***************************************************************************)
EXTENDS Integers, Sequences, FiniteSets, TLC

\* ---------------------------------------------------------------- bounds
MaxTime == 7          \* the clock stops advancing here (hours)
GridLen == 2          \* timestamps in one provider answer
MaxFailures == 1      \* exceptions injected in one behaviour

\* ------------------------------------------------------- program constants
UpdateThreshold == 6  \* update_threshold_hours
Absent == -1          \* a NULL column / missing row of update_log

Catalog == <<"a", "b">>
Spots == {Catalog[i] : i \in 1..Len(Catalog)}
RawLayers == {"weather", "marine", "daily"}
Layers == {"weather", "marine", "daily", "scored_forecast", "half_day", "daily_scores"}
NoSpot == "-"

VARIABLES
    now,        \* datetime.now(), in hours
    run,        \* the forecast run the providers currently serve
    rows,       \* rows[layer][spot]: the rows of the layer's table for the spot
    ledger,     \* ledger[spot][layer]: update_log, Absent or the stamp
    op,         \* the running entry point, or "idle"
    force,      \* its force_update argument
    todo,       \* spots the loop has still to visit
    cur,        \* the spot being refreshed
    pc,         \* position inside the entry point
    needs,      \* the needs_* locals of the pass
    status,     \* the status dictionary of the pass: flags and errors
    attempted,  \* layers whose step body was entered in this pass
    snap,       \* the store as it was when the pass began
    summary,    \* spots that have an entry in the returned dictionary
    clean,      \* spots whose last pass ended without error, nothing since
    nfail,      \* exceptions injected so far
    calc        \* the arguments and locals of a trip-planning or scoring call

vars == <<now, run, rows, ledger, op, force, todo, cur, pc, needs, status,
          attempted, snap, summary, clean, nfail, calc>>

\* ----------------------------------------------------------- the providers
Grid(r) == r .. (r + GridLen - 1)

\* fetch_weather_data / fetch_marine_data: a dense grid of the current run
Fetched(r) == {[ts |-> t, run |-> r] : t \in Grid(r)}

fetch_weather_data == Fetched(run)

fetch_marine_data == Fetched(run)

\* ---------------------------------------------------------------- the store
NoFlags == [l \in Layers |-> FALSE]
NoStatus == [updated |-> NoFlags, errors |-> {}]
NoSnap == [rows |-> [l \in Layers |-> {}], ledger |-> [l \in Layers |-> Absent],
           wasClean |-> FALSE, covered |-> {}]

\* to_sql(..., if_exists='replace'): the table is dropped and recreated with
\* the rows of this one spot
ReplaceTable(layer, spot_id, df) ==
    [rows EXCEPT ![layer] = [s \in Spots |-> IF s = spot_id THEN df ELSE {}]]

\* DELETE ... WHERE spot_id = ?, then to_sql(..., if_exists='append')
ReplaceSpotRows(layer, spot_id, df) ==
    [rows EXCEPT ![layer][spot_id] = df]

store_weather_data(spot_id, df) == ReplaceTable("weather", spot_id, df)

store_marine_data(spot_id, df) == ReplaceSpotRows("marine", spot_id, df)

store_daily_weather(spot_id, df) == ReplaceSpotRows("daily", spot_id, df)

store_scored_forecast(spot_id, df) == ReplaceSpotRows("scored_forecast", spot_id, df)

store_half_day_scores(spot_id, df) == ReplaceSpotRows("half_day", spot_id, df)

store_daily_scores(spot_id, df) == ReplaceSpotRows("daily_scores", spot_id, df)

\* INSERT OR REPLACE in place of INSERT OR IGNORE: the spot's row is recreated
\* with every other column NULL
update_last_fetch_Replace(spot_id, data_type) ==
    [ledger EXCEPT ![spot_id] = [l \in Layers |-> IF l = data_type THEN now ELSE Absent]]

\* the 'daily' branch updating last_daily_scores_update
update_last_fetch_WrongColumn(spot_id, data_type) ==
    [ledger EXCEPT ![spot_id][IF data_type = "daily" THEN "daily_scores" ELSE data_type] = now]

\* _update_last_fetch: INSERT OR IGNORE the spot's row, UPDATE one column
update_last_fetch(spot_id, data_type) ==
    [ledger EXCEPT ![spot_id][data_type] = now]

\* `<=` in place of `<`: a stamp aged exactly the threshold is stale
needs_update_in_Inclusive(led, spot_id, data_type, hours_threshold) ==
    \/ led[spot_id][data_type] = Absent
    \/ led[spot_id][data_type] <= now - hours_threshold

\* threshold = datetime.now(), the timedelta dropped: every stamp is stale
needs_update_in_NoThreshold(led, spot_id, data_type, hours_threshold) ==
    \/ led[spot_id][data_type] = Absent
    \/ led[spot_id][data_type] <= now

\* needs_update: no stamp, or last_update < now - threshold
needs_update_in(led, spot_id, data_type, hours_threshold) ==
    \/ led[spot_id][data_type] = Absent
    \/ led[spot_id][data_type] < now - hours_threshold

needs_update(spot_id, data_type, hours_threshold) ==
    needs_update_in(ledger, spot_id, data_type, hours_threshold)

\* ------------------------------------------------------------- derivations
\* pd.merge(weather_df, marine_df, on='date', how='inner') and score_forecast:
\* one scored row per timestamp present in both raw layers
InnerJoinScore(weather_df, marine_df) ==
    {[ts |-> w.ts, w |-> w.run, m |-> m.run, mts |-> m.ts] :
        <<w, m>> \in {p \in weather_df \X marine_df : p[1].ts = p[2].ts}}

\* the i-th row of a frame read with ORDER BY timestamp
Nth(df, i) == CHOOSE r \in df : Cardinality({q \in df : q.ts < r.ts}) = i - 1

\* merge_weather_and_marine_data and score_forecast: the two frames are put
\* side by side on their row index 0..n-1, `time` taken from the weather frame;
\* a position only one frame has gets missing values from the other
merge_weather_and_marine_data(hourly_weather, hourly_marine) ==
    LET nw == Cardinality(hourly_weather)
        nm == Cardinality(hourly_marine)
        n == IF nw >= nm THEN nw ELSE nm
    IN  {[ts |-> IF i <= nw THEN Nth(hourly_weather, i).ts ELSE Absent,
          w |-> IF i <= nw THEN Nth(hourly_weather, i).run ELSE Absent,
          m |-> IF i <= nm THEN Nth(hourly_marine, i).run ELSE Absent,
          mts |-> IF i <= nm THEN Nth(hourly_marine, i).ts ELSE Absent] : i \in 1..n}

\* the run of the daily-weather row of a date, Absent when there is none
\* (is_daylight then falls back to its default window)
DailyRun(daily_weather_df, date) ==
    IF \E d \in daily_weather_df : d.ts = date
    THEN (CHOOSE d \in daily_weather_df : d.ts = date).run
    ELSE Absent

\* get_half_day_scores / get_daily_scores: one aggregate row per date of the
\* scored rows, masked by that date's daily-weather row
Aggregate(scored_df, daily_weather_df) ==
    {[date |-> r.ts, w |-> r.w, m |-> r.m, mts |-> r.mts,
      d |-> DailyRun(daily_weather_df, r.ts)] : r \in scored_df}

get_half_day_scores(scored_df, daily_weather_df) == Aggregate(scored_df, daily_weather_df)

get_daily_scores(scored_df, daily_weather_df) == Aggregate(scored_df, daily_weather_df)

\* spots whose scored rows all have a weather row and a marine row of the
\* same timestamp
HasRawRows(s) ==
    \A r \in rows["scored_forecast"][s] :
        /\ \E w \in rows["weather"][s] : w.ts = r.ts
        /\ \E m \in rows["marine"][s] : m.ts = r.ts

\* what a pass remembers of the store it started from
SnapOf(spot_id) ==
    [rows |-> [l \in Layers |-> rows[l][spot_id]],
     ledger |-> ledger[spot_id],
     wasClean |-> spot_id \in clean,
     covered |-> {s \in Spots : HasRawRows(s)}]

\* no trip-planning or scoring call is running
NoCalc == [stage |-> "none"]

\* ------------------------------------------------------------------- Init
Init ==
    /\ calc = NoCalc
    /\ now = 0
    /\ run = 0
    /\ rows = [l \in Layers |-> [s \in Spots |-> {}]]
    /\ ledger = [s \in Spots |-> [l \in Layers |-> Absent]]
    /\ op = "idle"
    /\ force = FALSE
    /\ todo = <<>>
    /\ cur = NoSpot
    /\ pc = "idle"
    /\ needs = NoFlags
    /\ status = NoStatus
    /\ attempted = {}
    /\ snap = NoSnap
    /\ summary = {}
    /\ clean = {}
    /\ nfail = 0

\* ------------------------------------------------------------ environment
\* time passes between two entry points (a pass lasts seconds, not hours):
\* the clock jumps past the threshold, so every stamp set before is stale;
\* meanwhile the providers publish the next forecast run, whose grid starts
\* one slot later
Tick ==
    /\ op = "idle"
    /\ now + UpdateThreshold + 1 <= MaxTime
    /\ now' = now + UpdateThreshold + 1
    /\ run' = run + 1
    /\ clean' = {}
    /\ UNCHANGED <<calc, rows, ledger, op, force, todo, cur, pc, needs, status,
                   attempted, snap, summary, nfail>>

\* ---------------------------------------------------------- pass plumbing
Flag(layer) == [status EXCEPT !.updated[layer] = TRUE]

Err(tag) == [status EXCEPT !.errors = @ \cup {tag}]

\* an exception raised inside a try block of the pass: the handler appends
\* the error and the pass goes on at `next`
Raise(tag, next) ==
    /\ nfail < MaxFailures
    /\ nfail' = nfail + 1
    /\ status' = Err(tag)
    /\ pc' = next
    /\ UNCHANGED <<rows, ledger>>

\* CachedDataProvider.clear_cache(spot_name) and clear_cache(None)
clear_cache ==
    /\ op = "idle"
    /\ \E which \in {{s} : s \in Spots} \cup {Spots} :
        /\ rows' = [l \in Layers |-> [s \in Spots |->
                      IF l \in RawLayers /\ s \in which THEN {} ELSE rows[l][s]]]
        /\ ledger' = [s \in Spots |->
                      IF s \in which THEN [l \in Layers |-> Absent] ELSE ledger[s]]
        /\ clean' = clean \ which
    /\ UNCHANGED <<calc, now, run, op, force, todo, cur, pc, needs, status,
                   attempted, snap, summary, nfail>>

\* ------------------------------------------- SurfDataFetcher entry points
FetcherOps == {"update_all_spots", "force_update_spot"}

update_all_spots ==
    /\ op = "idle"
    /\ \E f \in BOOLEAN : force' = f
    /\ op' = "update_all_spots"
    /\ todo' = Catalog
    /\ pc' = "loop"
    /\ summary' = {}
    /\ UNCHANGED <<calc, now, run, rows, ledger, cur, needs, status, attempted, snap,
                   clean, nfail>>

force_update_spot ==
    /\ op = "idle"
    /\ \E s \in Spots : todo' = <<s>>
    /\ force' = TRUE
    /\ op' = "force_update_spot"
    /\ pc' = "loop"
    /\ summary' = {}
    /\ UNCHANGED <<calc, now, run, rows, ledger, cur, needs, status, attempted, snap,
                   clean, nfail>>

\* the loop head of update_all_spots (force_update_spot: a one-spot list):
\* db.upsert_spot, outside every try block, then _update_spot_data
FetcherLoop ==
    /\ op \in FetcherOps
    /\ pc = "loop"
    /\ \/ /\ todo = <<>>
          /\ pc' = "returned"
          /\ UNCHANGED <<cur, todo, status, attempted, nfail>>
       \/ /\ todo # <<>>
          /\ cur' = Head(todo)
          /\ todo' = Tail(todo)
          /\ status' = NoStatus
          /\ attempted' = {}
          /\ pc' = "begin"
          /\ UNCHANGED nfail
       \/ /\ todo # <<>>
          /\ nfail < MaxFailures
          /\ nfail' = nfail + 1
          /\ cur' = Head(todo)
          /\ pc' = "raised"
          /\ UNCHANGED <<todo, status, attempted>>
    /\ UNCHANGED <<calc, now, run, rows, ledger, op, force, needs, snap, summary, clean>>

\* needs_scored without `or needs_weather or needs_marine`
NeedsOf_NoCascade(spot_id, f, led) ==
    LET raw(l) == f \/ needs_update_in(led, spot_id, l, UpdateThreshold)
    IN  [l \in Layers |->
            CASE l \in {"half_day", "daily_scores"} -> raw(l) \/ raw("scored_forecast")
              [] OTHER -> raw(l)]

\* needs_marine taken from raw_data_needed: marine fetched with weather
NeedsOf_RawTogether(spot_id, f, led) ==
    LET raw(l) == f \/ needs_update_in(led, spot_id, l, UpdateThreshold)
        needs_scored == raw("scored_forecast") \/ raw("weather") \/ raw("marine")
    IN  [l \in Layers |->
            CASE l = "marine" -> raw("weather") \/ raw("marine")
              [] l \in RawLayers -> raw(l)
              [] l = "scored_forecast" -> needs_scored
              [] OTHER -> raw(l) \/ needs_scored]

\* _update_spot_data: the needs_* flags, all read before anything is written
NeedsOf(spot_id, f, led) ==
    LET raw(l) == f \/ needs_update_in(led, spot_id, l, UpdateThreshold)
        needs_scored == raw("scored_forecast") \/ raw("weather") \/ raw("marine")
    IN  [l \in Layers |->
            CASE l \in RawLayers -> raw(l)
              [] l = "scored_forecast" -> needs_scored
              [] OTHER -> raw(l) \/ needs_scored]

CheckNeeds ==
    /\ op \in FetcherOps
    /\ pc = "begin"
    /\ needs' = NeedsOf(cur, force, ledger)
    /\ snap' = SnapOf(cur)
    /\ clean' = clean \ {cur}
    /\ pc' = "weather"
    /\ UNCHANGED <<calc, now, run, rows, ledger, op, force, todo, cur, status,
                   attempted, summary, nfail>>

\* what a step of a pass leaves alone
PassFrame == UNCHANGED <<calc, now, run, op, force, todo, cur, needs, snap, summary, clean>>

\* the position of a store call between its two commits, per layer
StampPc ==
    [l \in Layers |->
        CASE l = "weather" -> {"weather_stamp", "r_weather_stamp"}
          [] l = "daily" -> {"daily_stamp", "r_daily_stamp"}
          [] l = "marine" -> {"marine_stamp"}
          [] l = "scored_forecast" -> {"scored_stamp", "r_scored_stamp"}
          [] l = "half_day" -> {"half_day_stamp", "r_half_day_stamp"}
          [] OTHER -> {"daily_scores_stamp", "r_daily_scores_stamp"}]

Enter(layer) == attempted' = attempted \cup {layer}

\* a step whose `if needs_...` is false
Skip(next) ==
    /\ pc' = next
    /\ UNCHANGED <<rows, ledger, status, attempted, nfail>>

\* the commit of to_sql: the rows are in the table, the ledger not yet stamped
CommitRows(new_rows, next) ==
    /\ rows' = new_rows
    /\ pc' = next
    /\ UNCHANGED <<ledger, status, attempted, nfail>>

\* the same commit in the action that also enters the step
CommitRowsOf(new_rows, next) ==
    /\ rows' = new_rows
    /\ pc' = next
    /\ UNCHANGED <<ledger, status, nfail>>

\* the commit of _update_last_fetch, then status['..._updated'] = True
CommitStamp(layer, next) ==
    /\ ledger' = update_last_fetch(cur, layer)
    /\ status' = Flag(layer)
    /\ pc' = next
    /\ UNCHANGED <<rows, attempted, nfail>>

\* lines 99-104: fetch_weather_data when hourly or daily weather is needed
FetchWeather ==
    /\ op \in FetcherOps
    /\ pc = "weather"
    /\ \/ /\ ~(needs["weather"] \/ needs["daily"])
          /\ Skip("marine")
       \/ /\ needs["weather"] \/ needs["daily"]
          /\ Enter("weather")
          /\ pc' = IF needs["weather"] THEN "weather_rows" ELSE "daily_rows"
          /\ UNCHANGED <<rows, ledger, status, nfail>>
       \/ /\ needs["weather"] \/ needs["daily"]
          /\ Enter("weather")
          /\ Raise("weather_fetch", "marine")
    /\ PassFrame

\* lines 106-108: db.store_weather_data
StoreWeatherRows ==
    /\ op \in FetcherOps
    /\ pc = "weather_rows"
    /\ CommitRows(store_weather_data(cur, fetch_weather_data), "weather_stamp")
    /\ PassFrame

StampWeather ==
    /\ op \in FetcherOps
    /\ pc = "weather_stamp"
    /\ \/ CommitStamp("weather", IF needs["daily"] THEN "daily_rows" ELSE "marine")
       \/ Raise("weather_fetch", "marine") /\ UNCHANGED attempted
    /\ PassFrame

\* lines 111-113: db.store_daily_weather
StoreDailyRows ==
    /\ op \in FetcherOps
    /\ pc = "daily_rows"
    /\ \/ CommitRows(store_daily_weather(cur, fetch_weather_data), "daily_stamp")
       \/ Raise("weather_fetch", "marine") /\ UNCHANGED attempted
    /\ PassFrame

StampDaily ==
    /\ op \in FetcherOps
    /\ pc = "daily_stamp"
    /\ \/ CommitStamp("daily", "marine")
       \/ Raise("weather_fetch", "marine") /\ UNCHANGED attempted
    /\ PassFrame

\* lines 122-134: fetch_marine_data and db.store_marine_data
FetchMarine ==
    /\ op \in FetcherOps
    /\ pc = "marine"
    /\ \/ /\ ~needs["marine"]
          /\ Skip("scored")
       \/ /\ needs["marine"]
          /\ Enter("marine")
          /\ rows' = store_marine_data(cur, fetch_marine_data)
          /\ pc' = "marine_stamp"
          /\ UNCHANGED <<ledger, status, nfail>>
       \/ /\ needs["marine"]
          /\ Enter("marine")
          /\ Raise("marine_fetch", "scored")
    /\ PassFrame

StampMarine ==
    /\ op \in FetcherOps
    /\ pc = "marine_stamp"
    /\ \/ CommitStamp("marine", "scored")
       \/ Raise("marine_fetch", "scored") /\ UNCHANGED attempted
    /\ PassFrame

\* `or` in place of `and` at line 145
HasRawData_Either(weather_df, marine_df) == weather_df # {} \/ marine_df # {}

\* line 145: not weather_df.empty and not marine_df.empty
HasRawData(weather_df, marine_df) == weather_df # {} /\ marine_df # {}

\* lines 175, 196: not scored_df.empty and not daily_weather_df.empty
HasScoredData(scored_df, daily_weather_df) == scored_df # {} /\ daily_weather_df # {}

\* lines 139-166: the scoring step
ScoreForecast ==
    /\ op \in FetcherOps
    /\ pc = "scored"
    /\ \/ /\ ~needs["scored_forecast"]
          /\ Skip("half_day")
       \/ /\ needs["scored_forecast"]
          /\ Enter("scored_forecast")
          /\ \/ /\ HasRawData(rows["weather"][cur], rows["marine"][cur])
                /\ rows' = store_scored_forecast(cur,
                               InnerJoinScore(rows["weather"][cur], rows["marine"][cur]))
                /\ pc' = "scored_stamp"
                /\ UNCHANGED <<ledger, status, nfail>>
             \/ /\ ~HasRawData(rows["weather"][cur], rows["marine"][cur])
                /\ status' = Err("missing_raw")
                /\ pc' = "half_day"
                /\ UNCHANGED <<rows, ledger, nfail>>
             \/ Raise("scoring", "half_day")
    /\ PassFrame

StampScored ==
    /\ op \in FetcherOps
    /\ pc = "scored_stamp"
    /\ \/ CommitStamp("scored_forecast", "half_day")
       \/ Raise("scoring", "half_day") /\ UNCHANGED attempted
    /\ PassFrame

\* lines 169-187: the half-day step
HalfDayScores ==
    /\ op \in FetcherOps
    /\ pc = "half_day"
    /\ \/ /\ ~needs["half_day"]
          /\ Skip("daily_scores")
       \/ /\ needs["half_day"]
          /\ Enter("half_day")
          /\ \/ /\ HasScoredData(rows["scored_forecast"][cur], rows["daily"][cur])
                /\ rows' = store_half_day_scores(cur,
                               get_half_day_scores(rows["scored_forecast"][cur], rows["daily"][cur]))
                /\ pc' = "half_day_stamp"
                /\ UNCHANGED <<ledger, status, nfail>>
             \/ /\ ~HasScoredData(rows["scored_forecast"][cur], rows["daily"][cur])
                /\ status' = Err("missing_half_day")
                /\ pc' = "daily_scores"
                /\ UNCHANGED <<rows, ledger, nfail>>
             \/ Raise("half_day", "daily_scores")
    /\ PassFrame

StampHalfDay ==
    /\ op \in FetcherOps
    /\ pc = "half_day_stamp"
    /\ \/ CommitStamp("half_day", "daily_scores")
       \/ Raise("half_day", "daily_scores") /\ UNCHANGED attempted
    /\ PassFrame

\* lines 190-208: the daily-scores step
DailyScores ==
    /\ op \in FetcherOps
    /\ pc = "daily_scores"
    /\ \/ /\ ~needs["daily_scores"]
          /\ Skip("done")
       \/ /\ needs["daily_scores"]
          /\ Enter("daily_scores")
          /\ \/ /\ HasScoredData(rows["scored_forecast"][cur], rows["daily"][cur])
                /\ rows' = store_daily_scores(cur,
                               get_daily_scores(rows["scored_forecast"][cur], rows["daily"][cur]))
                /\ pc' = "daily_scores_stamp"
                /\ UNCHANGED <<ledger, status, nfail>>
             \/ /\ ~HasScoredData(rows["scored_forecast"][cur], rows["daily"][cur])
                /\ status' = Err("missing_daily_scores")
                /\ pc' = "done"
                /\ UNCHANGED <<rows, ledger, nfail>>
             \/ Raise("daily_scores", "done")
    /\ PassFrame

StampDailyScores ==
    /\ op \in FetcherOps
    /\ pc = "daily_scores_stamp"
    /\ \/ CommitStamp("daily_scores", "done")
       \/ Raise("daily_scores", "done") /\ UNCHANGED attempted
    /\ PassFrame

\* ----------------------------------------- UnifiedDataRefresh entry point
refresh_all_spots ==
    /\ op = "idle"
    /\ \E f \in BOOLEAN : force' = f
    /\ op' = "refresh_all_spots"
    /\ todo' = Catalog
    /\ pc' = "loop"
    /\ summary' = {}
    /\ UNCHANGED <<calc, now, run, rows, ledger, cur, needs, status, attempted, snap,
                   clean, nfail>>

\* the loop of refresh_all_spots: refresh_spot opens the store inside its try
RefreshLoop ==
    /\ op = "refresh_all_spots"
    /\ pc = "loop"
    /\ \/ /\ todo = <<>>
          /\ pc' = "returned"
          /\ UNCHANGED <<cur, todo, status, attempted>>
       \/ /\ todo # <<>>
          /\ cur' = Head(todo)
          /\ todo' = Tail(todo)
          /\ status' = NoStatus
          /\ attempted' = {}
          /\ pc' = "r_begin"
    /\ UNCHANGED <<calc, now, run, rows, ledger, op, force, needs, snap, summary, clean, nfail>>

\* refresh_spot lines 81-82: only the two raw hourly layers are checked
RefreshNeedsOf(spot_id, f, led) ==
    [l \in Layers |->
        /\ l \in {"weather", "marine"}
        /\ (f \/ needs_update_in(led, spot_id, l, UpdateThreshold))]

RefreshCheckNeeds ==
    /\ op = "refresh_all_spots"
    /\ pc = "r_begin"
    /\ needs' = RefreshNeedsOf(cur, force, ledger)
    /\ snap' = SnapOf(cur)
    /\ clean' = clean \ {cur}
    /\ pc' = "r_weather"
    /\ UNCHANGED <<calc, now, run, rows, ledger, op, force, todo, cur, status,
                   attempted, summary, nfail>>

\* the commit of _update_last_fetch inside a store call that is not the last
\* of its try block: no flag is set yet
CommitStampOnly(layer, next) ==
    /\ ledger' = update_last_fetch(cur, layer)
    /\ pc' = next
    /\ UNCHANGED <<rows, status, attempted, nfail>>

\* lines 88-97: fetch_weather_data, store_weather_data, store_daily_weather
RefreshFetchWeather ==
    /\ op = "refresh_all_spots"
    /\ pc = "r_weather"
    /\ \/ /\ ~needs["weather"]
          /\ Skip("r_marine")
       \/ /\ needs["weather"]
          /\ Enter("weather")
          /\ CommitRowsOf(store_weather_data(cur, fetch_weather_data), "r_weather_stamp")
       \/ /\ needs["weather"]
          /\ Enter("weather")
          /\ Raise("weather_fetch", "r_marine")
    /\ PassFrame

RefreshStampWeather ==
    /\ op = "refresh_all_spots"
    /\ pc = "r_weather_stamp"
    /\ \/ CommitStampOnly("weather", "r_daily_rows")
       \/ Raise("weather_fetch", "r_marine") /\ UNCHANGED attempted
    /\ PassFrame

RefreshStoreDailyRows ==
    /\ op = "refresh_all_spots"
    /\ pc = "r_daily_rows"
    /\ \/ CommitRows(store_daily_weather(cur, fetch_weather_data), "r_daily_stamp")
       \/ Raise("weather_fetch", "r_marine") /\ UNCHANGED attempted
    /\ PassFrame

\* status['weather_fetched'] = True follows the second store call
RefreshStampDaily ==
    /\ op = "refresh_all_spots"
    /\ pc = "r_daily_stamp"
    /\ \/ /\ ledger' = update_last_fetch(cur, "daily")
          /\ status' = Flag("weather")
          /\ pc' = "r_marine"
          /\ UNCHANGED <<rows, attempted, nfail>>
       \/ Raise("weather_fetch", "r_marine") /\ UNCHANGED attempted
    /\ PassFrame

\* lines 100-109: `marine_df, daily_marine_df = fetch_marine_data(...)` unpacks
\* the one frame fetch_marine_data returns (its five column names) into two
\* names: ValueError on every call, before store_marine_data is reached
RefreshFetchMarine ==
    /\ op = "refresh_all_spots"
    /\ pc = "r_marine"
    /\ \/ /\ ~needs["marine"]
          /\ Skip("r_scored")
       \/ /\ needs["marine"]
          /\ Enter("marine")
          /\ status' = Err("marine_fetch")
          /\ pc' = "r_scored"
          /\ UNCHANGED <<rows, ledger, nfail>>
    /\ PassFrame

\* lines 114-132
RefreshScoreForecast ==
    /\ op = "refresh_all_spots"
    /\ pc = "r_scored"
    /\ LET due == status.updated["weather"] \/ status.updated["marine"] \/ force
       IN  \/ /\ ~due
              /\ Skip("r_half_day")
           \/ /\ due
              /\ Enter("scored_forecast")
              /\ \/ /\ HasRawData(rows["weather"][cur], rows["marine"][cur])
                    /\ CommitRowsOf(store_scored_forecast(cur,
                           merge_weather_and_marine_data(rows["weather"][cur],
                                                         rows["marine"][cur])),
                           "r_scored_stamp")
                 \/ /\ ~HasRawData(rows["weather"][cur], rows["marine"][cur])
                    /\ status' = Err("missing_raw")
                    /\ pc' = "r_half_day"
                    /\ UNCHANGED <<rows, ledger, nfail>>
                 \/ Raise("scoring", "r_half_day")
    /\ PassFrame

RefreshStampScored ==
    /\ op = "refresh_all_spots"
    /\ pc = "r_scored_stamp"
    /\ \/ CommitStamp("scored_forecast", "r_half_day")
       \/ Raise("scoring", "r_half_day") /\ UNCHANGED attempted
    /\ PassFrame

\* lines 135-150
RefreshHalfDayScores ==
    /\ op = "refresh_all_spots"
    /\ pc = "r_half_day"
    /\ LET due == status.updated["scored_forecast"] \/ force
       IN  \/ /\ ~due
              /\ Skip("r_daily_scores")
           \/ /\ due
              /\ Enter("half_day")
              /\ \/ /\ HasScoredData(rows["scored_forecast"][cur], rows["daily"][cur])
                    /\ CommitRowsOf(store_half_day_scores(cur,
                           get_half_day_scores(rows["scored_forecast"][cur],
                                               rows["daily"][cur])),
                           "r_half_day_stamp")
                 \/ /\ ~HasScoredData(rows["scored_forecast"][cur], rows["daily"][cur])
                    /\ status' = Err("missing_half_day")
                    /\ pc' = "r_daily_scores"
                    /\ UNCHANGED <<rows, ledger, nfail>>
                 \/ Raise("half_day", "r_daily_scores")
    /\ PassFrame

RefreshStampHalfDay ==
    /\ op = "refresh_all_spots"
    /\ pc = "r_half_day_stamp"
    /\ \/ CommitStamp("half_day", "r_daily_scores")
       \/ Raise("half_day", "r_daily_scores") /\ UNCHANGED attempted
    /\ PassFrame

\* lines 153-168
RefreshDailyScores ==
    /\ op = "refresh_all_spots"
    /\ pc = "r_daily_scores"
    /\ LET due == status.updated["scored_forecast"] \/ force
       IN  \/ /\ ~due
              /\ Skip("done")
           \/ /\ due
              /\ Enter("daily_scores")
              /\ \/ /\ HasScoredData(rows["scored_forecast"][cur], rows["daily"][cur])
                    /\ CommitRowsOf(store_daily_scores(cur,
                           get_daily_scores(rows["scored_forecast"][cur],
                                            rows["daily"][cur])),
                           "r_daily_scores_stamp")
                 \/ /\ ~HasScoredData(rows["scored_forecast"][cur], rows["daily"][cur])
                    /\ status' = Err("missing_daily_scores")
                    /\ pc' = "done"
                    /\ UNCHANGED <<rows, ledger, nfail>>
                 \/ Raise("daily_scores", "done")
    /\ PassFrame

RefreshStampDailyScores ==
    /\ op = "refresh_all_spots"
    /\ pc = "r_daily_scores_stamp"
    /\ \/ CommitStamp("daily_scores", "done")
       \/ Raise("daily_scores", "done") /\ UNCHANGED attempted
    /\ PassFrame

\* `return status`: the caller files it under the spot's name
PassDone ==
    /\ pc = "done"
    /\ summary' = summary \cup {cur}
    /\ clean' = IF status.errors = {} THEN clean \cup {cur} ELSE clean \ {cur}
    /\ pc' = "loop"
    /\ UNCHANGED <<calc, now, run, rows, ledger, op, force, todo, cur, needs, status,
                   attempted, snap, nfail>>

\* the entry point returns its dictionary, or the exception leaves it
Return ==
    /\ pc \in {"returned", "raised"}
    /\ op' = "idle"
    /\ pc' = "idle"
    /\ force' = FALSE
    /\ todo' = <<>>
    /\ cur' = NoSpot
    /\ needs' = NoFlags
    /\ status' = NoStatus
    /\ attempted' = {}
    /\ snap' = NoSnap
    /\ summary' = {}
    /\ UNCHANGED <<calc, now, run, rows, ledger, clean, nfail>>

Environment ==
    \/ Tick
    \/ clear_cache

FetcherPass ==
    \/ FetcherLoop
    \/ CheckNeeds
    \/ FetchWeather
    \/ StoreWeatherRows
    \/ StampWeather
    \/ StoreDailyRows
    \/ StampDaily
    \/ FetchMarine
    \/ StampMarine
    \/ ScoreForecast
    \/ StampScored
    \/ HalfDayScores
    \/ StampHalfDay
    \/ DailyScores
    \/ StampDailyScores

RefreshPass ==
    \/ RefreshLoop
    \/ RefreshCheckNeeds
    \/ RefreshFetchWeather
    \/ RefreshStampWeather
    \/ RefreshStoreDailyRows
    \/ RefreshStampDaily
    \/ RefreshFetchMarine
    \/ RefreshScoreForecast
    \/ RefreshStampScored
    \/ RefreshHalfDayScores
    \/ RefreshStampHalfDay
    \/ RefreshDailyScores
    \/ RefreshStampDailyScores

\* the store under SurfDataFetcher (the API's and the CLI's refresh path)
Next ==
    \/ Environment
    \/ update_all_spots
    \/ force_update_spot
    \/ FetcherPass
    \/ PassDone
    \/ Return

Spec == Init /\ [][Next]_vars

\* the store under UnifiedDataRefresh
NextRefresh ==
    \/ Environment
    \/ refresh_all_spots
    \/ RefreshPass
    \/ PassDone
    \/ Return

SpecRefresh == Init /\ [][NextRefresh]_vars

\* ---------------------------------------------- a store with aged stamps
\* ages a ledger entry can have when a pass begins: stamps are set by passes
\* and by CachedDataProvider's own store calls, each at its own time
Ages == {1, 2, UpdateThreshold, UpdateThreshold + 1}

StampsAt(t, ages) == {t - a : a \in ages}

\* a store filled by earlier passes: the first spot holds the rows of every
\* layer, the second lost its hourly weather rows to the first spot's last
\* weather store; the first spot's entries have any age, the second's are
\* fresh
InitAged ==
    LET raw == Fetched(0)
        scored == InnerJoinScore(raw, raw)
        t == UpdateThreshold + 1
    IN  /\ calc = NoCalc
        /\ now = t
        /\ run = 1
        /\ rows = [l \in Layers |-> [s \in Spots |->
                      CASE l = "weather" -> IF s = Catalog[1] THEN raw ELSE {}
                        [] l \in RawLayers -> raw
                        [] l = "scored_forecast" -> scored
                        [] l = "half_day" -> get_half_day_scores(scored, raw)
                        [] OTHER -> get_daily_scores(scored, raw)]]
        /\ \E w \in {Absent} \cup StampsAt(t, Ages),
              m \in StampsAt(t, {2, UpdateThreshold + 1}),
              sc, h, d \in StampsAt(t, {1, UpdateThreshold + 1}) :
              ledger = [s \in Spots |->
                  IF s = Catalog[1]
                  THEN [l \in Layers |->
                          CASE l = "weather" -> w
                            [] l = "marine" -> m
                            [] l = "daily" -> d
                            [] l = "scored_forecast" -> sc
                            [] l = "half_day" -> h
                            [] OTHER -> t - 1]
                  ELSE [l \in Layers |-> t - 1]]
        /\ op = "idle"
        /\ force = FALSE
        /\ todo = <<>>
        /\ cur = NoSpot
        /\ pc = "idle"
        /\ needs = NoFlags
        /\ status = NoStatus
        /\ attempted = {}
        /\ snap = NoSnap
        /\ summary = {}
        /\ clean = {}
        /\ nfail = 0

NextAged ==
    \/ update_all_spots
    \/ FetcherPass
    \/ PassDone
    \/ Return

SpecAged == InitAged /\ [][NextAged]_vars

\* the aged store under UnifiedDataRefresh: its marine rows were stored by
\* SurfDataFetcher or CachedDataProvider, which write the same database
NextRefreshAged ==
    \/ refresh_all_spots
    \/ RefreshPass
    \/ PassDone
    \/ Return

SpecRefreshAged == InitAged /\ [][NextRefreshAged]_vars

\* ------------------------------------------------------- trip windows
MaxDay == 6             \* calendar days the daily scores can cover
MaxRows == 4            \* dates that have a daily score
MaxOverlapDays == 2     \* max_overlap_days
TopWindows == 10        \* head(10)
WeekendMinScore == 3    \* min_score=3.0 of select_weekend_windows

\* a trip-planning or scoring call touches nothing of the store
StoreFrame ==
    UNCHANGED <<now, run, rows, ledger, op, force, todo, cur, pc, needs, status,
                attempted, snap, summary, clean, nfail>>

\* the store while such a call runs: empty and idle
StoreIdle ==
    /\ now = 0
    /\ run = 0
    /\ rows = [l \in Layers |-> [s \in Spots |-> {}]]
    /\ ledger = [s \in Spots |-> [l \in Layers |-> Absent]]
    /\ op = "idle"
    /\ force = FALSE
    /\ todo = <<>>
    /\ cur = NoSpot
    /\ pc = "idle"
    /\ needs = NoFlags
    /\ status = NoStatus
    /\ attempted = {}
    /\ snap = NoSnap
    /\ summary = {}
    /\ clean = {}
    /\ nfail = 0

\* day 1 is a Sunday: 0 Sunday .. 5 Friday, 6 Saturday
Weekday(d) == (d - 1) % 7

WeekendDays == {5, 6, 0}

\* daily_scores: one daily_score per date that has half-day rows
DailyInputs ==
    UNION {[S -> {4, 6}] : S \in {T \in SUBSET (1..MaxDay) : Cardinality(T) <= MaxRows}}

WindowPrefs ==
    {[min_days |-> 2, max_days |-> 4, min_score |-> 4],
     [min_days |-> 3, max_days |-> 4, min_score |-> 5]}

\* the dates of the rows in ascending order (sort_values + groupby)
DateSeq(S) ==
    [i \in 1..Cardinality(S) |->
        CHOOSE d \in S : Cardinality({e \in S : e < d}) = i - 1]

RECURSIVE SumOver(_, _, _)
SumOver(f, dates, i) ==
    IF i > Len(dates) THEN 0 ELSE f[dates[i]] + SumOver(f, dates, i + 1)

\* lines 38-55: the window of `duration` rows from row start_idx; avg_score is
\* total / days, consistency the sample standard deviation of the rows
WindowAt(daily, dates, start_idx, duration) ==
    LET ds == SubSeq(dates, start_idx, start_idx + duration - 1)
    IN  [start_date |-> ds[1],
         end_date |-> ds[duration],
         days |-> duration,
         total |-> SumOver(daily, ds, 1),
         squares |-> SumOver([d \in DOMAIN daily |-> daily[d] * daily[d]], ds, 1)]

AvgGreater(a, b) == a.total * b.days > b.total * a.days

AvgEqual(a, b) == a.total * b.days = b.total * a.days

\* days * (days - 1) * variance
Spread(w) == w.days * w.squares - w.total * w.total

\* consistency of a strictly below that of b; std() of one row is NaN, and
\* NaN sorts last
MoreConsistent(a, b) ==
    /\ a.days > 1
    /\ \/ b.days = 1
       \/ Spread(a) * b.days * (b.days - 1) < Spread(b) * a.days * (a.days - 1)

\* lines 36-55: every window of min_days..max_days rows whose avg_score
\* reaches min_score
Candidates(daily, min_days, max_days, min_score) ==
    LET dates == DateSeq(DOMAIN daily)
        all == {WindowAt(daily, dates, p[2], p[1]) :
                   p \in {q \in (min_days..max_days) \X (1..Len(dates)) :
                             q[2] + q[1] - 1 <= Len(dates)}}
    IN  {w \in all : w.total >= min_score * w.days}

\* line 63: sort_values(['avg_score', 'consistency'], [False, True]); rows
\* equal in both keep the order in which the loops appended them
SortsBefore(a, b) ==
    \/ AvgGreater(a, b)
    \/ /\ AvgEqual(a, b)
       /\ \/ MoreConsistent(a, b)
          \/ /\ ~MoreConsistent(b, a)
             /\ \/ a.days < b.days
                \/ a.days = b.days /\ a.start_date < b.start_date

SortWindows(W) ==
    [i \in 1..Cardinality(W) |->
        CHOOSE w \in W : Cardinality({v \in W : SortsBefore(v, w)}) = i - 1]

\* the same with + 1 left out
calculate_overlap_days_Exclusive(start1, end1, start2, end2) ==
    LET overlap_start == IF start1 >= start2 THEN start1 ELSE start2
        overlap_end == IF end1 <= end2 THEN end1 ELSE end2
    IN  IF overlap_start <= overlap_end THEN overlap_end - overlap_start ELSE 0

\* _calculate_overlap_days
calculate_overlap_days(start1, end1, start2, end2) ==
    LET overlap_start == IF start1 >= start2 THEN start1 ELSE start2
        overlap_end == IF end1 <= end2 THEN end1 ELSE end2
    IN  IF overlap_start <= overlap_end THEN overlap_end - overlap_start + 1 ELSE 0

\* lines 89-99: the window overlaps a selected one by more than the maximum
Overlaps(window, selected_windows) ==
    \E i \in 1..Len(selected_windows) :
        calculate_overlap_days(window.start_date, window.end_date,
                               selected_windows[i].start_date,
                               selected_windows[i].end_date) > MaxOverlapDays

Head10(df) == SubSeq(df, 1, IF Len(df) < TopWindows THEN Len(df) ELSE TopWindows)

InitWindows ==
    /\ StoreIdle
    /\ \E daily \in DailyInputs, prefs \in WindowPrefs :
          calc = [stage |-> "input", daily |-> daily, prefs |-> prefs,
                  windows |-> <<>>, rest |-> {},
                  selected |-> <<>>, result |-> <<>>]

\* select_weekend_windows: keep the Friday, Saturday and Sunday rows and call
\* select_optimal_windows with min_score 3.0
select_weekend_windows ==
    /\ calc.stage = "input"
    /\ calc.daily # << >>
    /\ calc' = [calc EXCEPT
                  !.stage = "weekend",
                  !.daily = [d \in {e \in DOMAIN calc.daily : Weekday(e) \in WeekendDays}
                                |-> calc.daily[d]],
                  !.prefs.min_score = WeekendMinScore]
    /\ StoreFrame

\* select_optimal_windows up to line 63: the candidates, sorted
select_optimal_windows ==
    /\ calc.stage \in {"input", "weekend"}
    /\ LET W == Candidates(calc.daily, calc.prefs.min_days, calc.prefs.max_days,
                           calc.prefs.min_score)
       IN  calc' = [calc EXCEPT
                      !.stage = IF W = {} THEN "returned" ELSE "sorted",
                      !.windows = SortWindows(W),
                      !.rest = W]
    /\ StoreFrame

\* _remove_overlapping_windows, one turn of its loop. Line 83 sorts again, by
\* avg_score alone, with the default kind='quicksort', which pandas documents
\* as not stable: among windows of equal avg_score the order of line 63 is
\* not kept, any of them can come next.
VisitWindow ==
    /\ calc.stage = "sorted"
    /\ \E window \in calc.rest :
        /\ \A v \in calc.rest : ~AvgGreater(v, window)
        /\ calc' = [calc EXCEPT
                      !.rest = @ \ {window},
                      !.selected = IF Overlaps(window, @) THEN @ ELSE Append(@, window)]
    /\ StoreFrame

\* line 68: return windows_df.head(10)
ReturnWindows ==
    /\ calc.stage = "sorted"
    /\ calc.rest = {}
    /\ calc' = [calc EXCEPT !.stage = "returned", !.result = Head10(calc.selected)]
    /\ StoreFrame

NextWindows ==
    \/ select_weekend_windows
    \/ select_optimal_windows
    \/ VisitWindow
    \/ ReturnWindows

SpecWindows == InitWindows /\ [][NextWindows]_vars

\* ------------------------------------------------------ long-weekend trips
\* find_weekend_windows and find_long_weekend_windows of the trip analysis.
\* half_day_scores holds one row per date here, so the mean over the rows of
\* a date range and the mean of the daily means coincide.

LwDays == 4

NumWeekends == 4
TopWeekends == 3
AddedMin == 6
OptimalHead == 3
TopLongWeekends == 5

\* the forecast starts on the Saturday, day 7
LwDates == 7..(6 + LwDays)

LwScores == {3, 5, 6, 7}

LwInputs == UNION {[S -> LwScores] : S \in SUBSET LwDates}

\* date.today(): the Friday before, or the Saturday itself
Todays == {6, 7}

\* date.weekday(): 0 Monday .. 5 Saturday, 6 Sunday
PyWeekday(d) == (d + 5) % 7

\* sum of the rows dated first..last
RECURSIVE RangeTotal(_, _, _)
RangeTotal(scores, first, last) ==
    IF first > last THEN 0
    ELSE (IF first \in DOMAIN scores THEN scores[first] ELSE 0)
         + RangeTotal(scores, first + 1, last)

RangeRows(scores, first, last) ==
    Cardinality({d \in DOMAIN scores : first <= d /\ d <= last})

TripAvgGreater(a, b) == a.total * b.n > b.total * a.n

\* sorted(..., key=avg_score, reverse=True): stable
RECURSIVE InsertTrip(_, _)
InsertTrip(sorted, t) ==
    IF sorted = << >> THEN <<t>>
    ELSE IF TripAvgGreater(t, Head(sorted)) THEN <<t>> \o sorted
    ELSE <<Head(sorted)>> \o InsertTrip(Tail(sorted), t)

RECURSIVE SortedTrips(_)
SortedTrips(s) ==
    IF s = << >> THEN << >>
    ELSE InsertTrip(SortedTrips(SubSeq(s, 1, Len(s) - 1)), s[Len(s)])

TopOf(s, k) == SubSeq(s, 1, IF Len(s) < k THEN Len(s) ELSE k)

\* lines 673-700: the weekends from week_offset on whose mean reaches min_score
RECURSIVE WeekendsFrom(_, _, _, _)
WeekendsFrom(scores, today, min_score, week_offset) ==
    IF week_offset >= NumWeekends THEN << >>
    ELSE LET days_until_saturday == (5 - PyWeekday(today)) % 7
             saturday == today + days_until_saturday + week_offset * 7
             sunday == saturday + 1
             n == RangeRows(scores, saturday, sunday)
             total == RangeTotal(scores, saturday, sunday)
             rest == WeekendsFrom(scores, today, min_score, week_offset + 1)
         IN  IF n > 0 /\ total >= min_score * n
             THEN <<[start_date |-> saturday, end_date |-> sunday,
                     duration_days |-> 2, total |-> total, n |-> n,
                     type |-> "weekend"]>> \o rest
             ELSE rest

\* lines 729-743: extended_avg > base_weekend['avg_score'] and added_avg >= 6.0
ExtensionAccepted(scores, base_weekend, extended_end) ==
    LET ext_n == RangeRows(scores, base_weekend.start_date, extended_end)
        ext_total == RangeTotal(scores, base_weekend.start_date, extended_end)
        add_n == RangeRows(scores, base_weekend.end_date + 1, extended_end)
        add_total == RangeTotal(scores, base_weekend.end_date + 1, extended_end)
    IN  /\ ext_n > 0
        /\ add_n > 0
        /\ ext_total * base_weekend.n > base_weekend.total * ext_n
        /\ add_total >= AddedMin * add_n

\* lines 718-754: the accepted extensions from base_weekends[i], extra_days on
RECURSIVE ExtensionsFrom(_, _, _, _)
ExtensionsFrom(scores, base_weekends, i, extra_days) ==
    IF i > Len(base_weekends) THEN << >>
    ELSE IF extra_days > 2 THEN ExtensionsFrom(scores, base_weekends, i + 1, 1)
    ELSE LET base_weekend == base_weekends[i]
             extended_end == base_weekend.end_date + extra_days
             rest == ExtensionsFrom(scores, base_weekends, i, extra_days + 1)
         IN  IF ExtensionAccepted(scores, base_weekend, extended_end)
             THEN <<[start_date |-> base_weekend.start_date,
                     end_date |-> extended_end,
                     duration_days |-> base_weekend.duration_days + extra_days,
                     total |-> RangeTotal(scores, base_weekend.start_date, extended_end),
                     n |-> RangeRows(scores, base_weekend.start_date, extended_end),
                     type |-> "long_weekend"]>> \o rest
             ELSE rest

\* lines 765-776: the first windows of select_optimal_windows, converted
OptimalTrips(df) ==
    [i \in 1..Len(TopOf(df, OptimalHead)) |->
        [start_date |-> df[i].start_date, end_date |-> df[i].end_date,
         duration_days |-> df[i].days, total |-> df[i].total, n |-> df[i].days,
         type |-> "long_weekend"]]

InitLongWeekend ==
    /\ StoreIdle
    /\ \E scores \in LwInputs, today \in Todays, min_score \in {3, 5} :
          calc = [stage |-> "trip", daily |-> scores, today |-> today,
                  prefs |-> [min_days |-> 3, max_days |-> 4, min_score |-> min_score],
                  base_weekends |-> << >>, long_weekends |-> << >>,
                  windows |-> << >>, rest |-> {},
                  selected |-> << >>, result |-> << >>, trips |-> << >>]

\* find_weekend_windows: the best three Saturday-Sunday weekends
find_weekend_windows ==
    /\ calc.stage = "trip"
    /\ calc' = [calc EXCEPT
                  !.stage = "weekends",
                  !.base_weekends =
                      TopOf(SortedTrips(WeekendsFrom(calc.daily, calc.today,
                                                     calc.prefs.min_score, 0)),
                            TopWeekends)]
    /\ StoreFrame

\* find_long_weekend_windows, lines 718-762: the extensions of the base
\* weekends, then the call of select_optimal_windows with 3..4 days
find_long_weekend_windows ==
    /\ calc.stage = "weekends"
    /\ calc' = [calc EXCEPT
                  !.stage = "input",
                  !.long_weekends = ExtensionsFrom(calc.daily, calc.base_weekends, 1, 1)]
    /\ StoreFrame

\* lines 765-778: append the optimal windows, return the best five
ReturnLongWeekends ==
    /\ calc.stage = "returned"
    /\ calc' = [calc EXCEPT
                  !.stage = "trips",
                  !.trips = TopOf(SortedTrips(calc.long_weekends \o OptimalTrips(calc.result)),
                                  TopLongWeekends)]
    /\ StoreFrame

NextLongWeekend ==
    \/ find_weekend_windows
    \/ find_long_weekend_windows
    \/ select_optimal_windows
    \/ VisitWindow
    \/ ReturnWindows
    \/ ReturnLongWeekends

SpecLongWeekend == InitLongWeekend /\ [][NextLongWeekend]_vars

\* ----------------------------------------------------------------- scoring
\* wave_scoring.py and surf_rating.py. Directions are whole degrees, wind
\* speeds whole knots, wave heights millimetres and periods half seconds, so
\* that every threshold of the code is a whole number.

\* a missing measurement: every comparison with it is false
NaN == -1000

Lt(a, b) == a # NaN /\ b # NaN /\ a < b
Le(a, b) == a # NaN /\ b # NaN /\ a <= b
Gt(a, b) == a # NaN /\ b # NaN /\ a > b
Ge(a, b) == a # NaN /\ b # NaN /\ a >= b

Buffer == 30

\* score_swell_direction
score_swell_direction(wave_direction, ideal_range) ==
    LET min_dir == ideal_range[1]
        max_dir == ideal_range[2]
    IN  IF max_dir < min_dir /\ (Ge(wave_direction, min_dir) \/ Le(wave_direction, max_dir))
        THEN 0
        ELSE IF ~(max_dir < min_dir) /\ Le(min_dir, wave_direction) /\ Le(wave_direction, max_dir)
        THEN 0
        ELSE IF /\ max_dir < min_dir
                /\ Ge(wave_direction, min_dir - Buffer) \/ Le(wave_direction, max_dir + Buffer)
                /\ ~(Ge(wave_direction, min_dir) \/ Le(wave_direction, max_dir))
        THEN -1
        ELSE IF /\ ~(max_dir < min_dir)
                /\ Le(min_dir - Buffer, wave_direction) /\ Le(wave_direction, max_dir + Buffer)
                /\ ~(Le(min_dir, wave_direction) /\ Le(wave_direction, max_dir))
        THEN -1
        ELSE -10

\* lines 49-55: the wind comes from a favorable direction
Favorable(wind_direction, ideal_range) ==
    LET min_dir == ideal_range[1]
        max_dir == ideal_range[2]
    IN  IF max_dir < min_dir
        THEN Ge(wind_direction, min_dir) \/ Le(wind_direction, max_dir)
        ELSE Le(min_dir, wind_direction) /\ Le(wind_direction, max_dir)

\* score_wind_direction_speed
score_wind_direction_speed(wind_direction, wind_speed, ideal_range) ==
    IF Favorable(wind_direction, ideal_range)
    THEN IF Le(5, wind_speed) /\ Le(wind_speed, 12) THEN 2
         ELSE IF Lt(12, wind_speed) /\ Le(wind_speed, 20) THEN 1
         ELSE IF Lt(20, wind_speed) /\ Le(wind_speed, 30) THEN 0
         ELSE IF Lt(30, wind_speed) /\ Le(wind_speed, 40) THEN -1
         ELSE IF Gt(wind_speed, 40) THEN -3
         ELSE 2
    ELSE IF Lt(wind_speed, 3) THEN 1
         ELSE IF Le(3, wind_speed) /\ Le(wind_speed, 6) THEN 0
         ELSE IF Lt(6, wind_speed) /\ Le(wind_speed, 10) THEN -1
         ELSE IF Lt(10, wind_speed) /\ Le(wind_speed, 20) THEN -4
         ELSE -6

\* score_wave_period; the period is in half seconds
score_wave_period(period) ==
    IF Lt(period, 12) THEN -4
    ELSE IF Le(12, period) /\ Lt(period, 16) THEN -2
    ELSE IF Le(16, period) /\ Lt(period, 20) THEN -1
    ELSE IF Le(20, period) /\ Lt(period, 23) THEN 0
    ELSE IF Le(23, period) /\ Lt(period, 28) THEN 1
    ELSE 2

\* wave_height * 3.28084, for a height in millimetres: feet in units of 1e-8
FeetPerMetre == 328084

Feet(wave_height) == IF wave_height = NaN THEN NaN ELSE wave_height * FeetPerMetre

\* k feet in the same unit
Ft(k) == k * 100000000

\* the same with the conversion taken as 3 ft for 0.914 m (3.2823 ft per m)
score_wave_height_Rounded(wave_height) ==
    LET wave_height_ft == IF wave_height = NaN THEN NaN ELSE wave_height * 328230
    IN  IF Lt(wave_height_ft, Ft(1)) THEN 1
        ELSE IF Le(Ft(1), wave_height_ft) /\ Lt(wave_height_ft, Ft(2)) THEN 2
        ELSE IF Le(Ft(2), wave_height_ft) /\ Lt(wave_height_ft, Ft(3)) THEN 3
        ELSE IF Le(Ft(3), wave_height_ft) /\ Lt(wave_height_ft, Ft(5)) THEN 4
        ELSE 5

\* score_wave_height
score_wave_height(wave_height) ==
    LET wave_height_ft == Feet(wave_height)
    IN  IF Lt(wave_height_ft, Ft(1)) THEN 1
        ELSE IF Le(Ft(1), wave_height_ft) /\ Lt(wave_height_ft, Ft(2)) THEN 2
        ELSE IF Le(Ft(2), wave_height_ft) /\ Lt(wave_height_ft, Ft(3)) THEN 3
        ELSE IF Le(Ft(3), wave_height_ft) /\ Lt(wave_height_ft, Ft(5)) THEN 4
        ELSE 5

\* the same with strict comparisons
get_wind_relationship_Exclusive(wind_direction, spot_config) ==
    LET min_wind == spot_config.wind_dir_range[1]
        max_wind == spot_config.wind_dir_range[2]
        is_favorable ==
            IF min_wind > max_wind
            THEN Gt(wind_direction, min_wind) \/ Lt(wind_direction, max_wind)
            ELSE Lt(min_wind, wind_direction) /\ Lt(wind_direction, max_wind)
    IN  IF is_favorable THEN "favorable" ELSE "unfavorable"

\* get_wind_relationship, for a spot_config that holds a wind_dir_range
get_wind_relationship(wind_direction, spot_config) ==
    LET min_wind == spot_config.wind_dir_range[1]
        max_wind == spot_config.wind_dir_range[2]
        is_favorable ==
            IF min_wind > max_wind
            THEN Ge(wind_direction, min_wind) \/ Le(wind_direction, max_wind)
            ELSE Le(min_wind, wind_direction) /\ Le(wind_direction, max_wind)
    IN  IF is_favorable THEN "favorable" ELSE "unfavorable"

\* _get_favorable_rating; feet in units of 1e-8, the period in half seconds
get_favorable_rating(wave_height_ft, wave_period) ==
    IF Lt(wave_height_ft, Ft(1)) THEN "No surf"
    ELSE IF Lt(wave_height_ft, Ft(3)) THEN "Small"
    ELSE IF Ge(wave_height_ft, Ft(7)) /\ Gt(wave_period, 38) THEN "Epic"
    ELSE IF Ge(wave_height_ft, Ft(7)) /\ Gt(wave_period, 30) THEN "Firing"
    ELSE IF Gt(wave_height_ft, Ft(5)) /\ Gt(wave_period, 26) THEN "Pumping"
    ELSE IF Ge(wave_height_ft, Ft(3)) /\ Gt(wave_period, 22) THEN "Good"
    ELSE IF Ge(wave_height_ft, Ft(3)) /\ Lt(wave_period, 22) THEN "Fun"
    ELSE IF Ge(wave_height_ft, Ft(3)) /\ Lt(wave_period, 18) THEN "Fair"
    ELSE "Small"

\* _get_unfavorable_rating
get_unfavorable_rating(wave_height_ft, wave_period, wind_speed) ==
    IF Lt(wave_height_ft, Ft(3)) /\ Lt(wave_period, 16) THEN "Slop"
    ELSE IF /\ Le(Ft(3), wave_height_ft) /\ Le(wave_height_ft, Ft(5))
            /\ Le(16, wave_period) /\ Le(wave_period, 24) THEN "Mush"
    ELSE IF Ge(wave_height_ft, Ft(3)) /\ Gt(wave_period, 24) THEN "Messy"
    ELSE "Meh"

\* calculate_surf_rating
calculate_surf_rating(wave_height, wave_period, wind_speed, wind_direction, spot_config) ==
    LET wave_height_ft == Feet(wave_height)
        wind_relationship == get_wind_relationship(wind_direction, spot_config)
    IN  [rating |-> IF wind_relationship = "favorable"
                    THEN get_favorable_rating(wave_height_ft, wave_period)
                    ELSE get_unfavorable_rating(wave_height_ft, wave_period, wind_speed),
         wind_relationship |-> wind_relationship]

\* raw_total.clip(lower=1, upper=10), with the lower bound left out
Clip_NoLower(x) == IF x > 10 THEN 10 ELSE x

\* line 187: raw_total.clip(lower=1, upper=10)
Clip(x) == IF x < 1 THEN 1 ELSE IF x > 10 THEN 10 ELSE x

\* lines 147-173: the four component points of a row; a column the frame
\* does not have leaves its points at 0
ComponentPoints(row, spot_details) ==
    [swell_direction_points |->
        IF "wave_direction" \in DOMAIN row
        THEN score_swell_direction(row.wave_direction, spot_details.swell_dir_range)
        ELSE 0,
     wind_points |->
        IF "wind_angle" \in DOMAIN row /\ "wind_strength" \in DOMAIN row
        THEN score_wind_direction_speed(row.wind_angle, row.wind_strength,
                                        spot_details.wind_dir_range)
        ELSE 0,
     wave_height_points |->
        IF "wave_size" \in DOMAIN row THEN score_wave_height(row.wave_size) ELSE 0,
     wave_period_points |->
        IF "wave_period" \in DOMAIN row THEN score_wave_period(row.wave_period) ELSE 0]

RatingColumns == {"wave_size", "wave_period", "wind_strength", "wind_angle"}

\* add_ratings_to_forecast, for a frame without the provider's column names
AddRatings(row, spot_config) ==
    IF RatingColumns \subseteq DOMAIN row
    THEN calculate_surf_rating(row.wave_size, row.wave_period, row.wind_strength,
                               row.wind_angle, spot_config)
    ELSE [rating |-> "Unknown", wind_relationship |-> "unknown"]

\* --- directions: one call of a direction test
Directions == {5 * k : k \in 0..71}

RangeEnds == {0, 20, 45, 60, 135, 200, 260, 340, 350}

DirRanges == RangeEnds \X RangeEnds

WindSpeeds == {NaN, 0, 2, 3, 4, 5, 6, 8, 10, 12, 15, 20, 25, 30, 35, 40, 45}

InitDirection ==
    /\ StoreIdle
    /\ \E d \in Directions, r \in DirRanges :
          calc = [stage |-> "direction", direction |-> d, ideal_range |-> r,
                  wind_speed |-> NaN, favorable |-> FALSE, points |-> 0,
                  relationship |-> "none"]

CallSwellDirection ==
    /\ calc.stage = "direction"
    /\ calc' = [calc EXCEPT
                  !.stage = "swell",
                  !.points = score_swell_direction(calc.direction, calc.ideal_range)]
    /\ StoreFrame

CallWindDirectionSpeed ==
    /\ calc.stage = "direction"
    /\ \E wind_speed \in WindSpeeds :
          calc' = [calc EXCEPT
                     !.stage = "wind",
                     !.wind_speed = wind_speed,
                     !.favorable = Favorable(calc.direction, calc.ideal_range),
                     !.points = score_wind_direction_speed(calc.direction, wind_speed,
                                                           calc.ideal_range)]
    /\ StoreFrame

CallWindRelationship ==
    /\ calc.stage = "direction"
    /\ calc' = [calc EXCEPT
                  !.stage = "relationship",
                  !.relationship =
                      get_wind_relationship(calc.direction,
                                            [wind_dir_range |-> calc.ideal_range])]
    /\ StoreFrame

NextDirection ==
    \/ CallSwellDirection
    \/ CallWindDirectionSpeed
    \/ CallWindRelationship

SpecDirection == InitDirection /\ [][NextDirection]_vars

\* --- score_forecast on one row of the merged frame
Measurements ==
    [wave_direction |-> {290, 350, 180, NaN},
     wind_angle |-> {60, 270, NaN},
     wind_strength |-> {2, 4, 10, 18, 25, 35, 45, NaN},
     wave_size |-> {200, 500, 700, 914, 915, 1200, 1600, 2200, NaN},
     wave_period |-> {10, 14, 18, 22, 23, 24, 27, 28, 32, 40, NaN}]

\* a row of every frame the columns allow: the columns are its DOMAIN
MergedRows ==
    {[c \in cols |-> full[c]] :
        full \in [wave_direction : Measurements.wave_direction,
                  wind_angle : Measurements.wind_angle,
                  wind_strength : Measurements.wind_strength,
                  wave_size : Measurements.wave_size,
                  wave_period : Measurements.wave_period],
        cols \in SUBSET DOMAIN Measurements}

SpotDetails ==
    {[swell_dir_range |-> <<260, 340>>, wind_dir_range |-> <<45, 135>>]}

InitScoring ==
    /\ StoreIdle
    /\ \E row \in MergedRows, spot_details \in SpotDetails :
          calc = [stage |-> "merged", row |-> row, spot_details |-> spot_details,
                  points |-> [swell_direction_points |-> 0, wind_points |-> 0,
                              wave_height_points |-> 0, wave_period_points |-> 0],
                  total_points |-> 0, surf_rating |-> "none",
                  wind_relationship |-> "none"]

\* score_forecast up to line 187: the component points and their clamped sum
score_forecast ==
    /\ calc.stage = "merged"
    /\ LET p == ComponentPoints(calc.row, calc.spot_details)
       IN  calc' = [calc EXCEPT
                      !.stage = "scored",
                      !.points = p,
                      !.total_points = Clip(p.swell_direction_points + p.wind_points
                                            + p.wave_height_points + p.wave_period_points)]
    /\ StoreFrame

\* lines 190-200: add_ratings_to_forecast
add_ratings_to_forecast ==
    /\ calc.stage = "scored"
    /\ LET r == AddRatings(calc.row, calc.spot_details)
       IN  calc' = [calc EXCEPT
                      !.stage = "rated",
                      !.surf_rating = r.rating,
                      !.wind_relationship = r.wind_relationship]
    /\ StoreFrame

NextScoring ==
    \/ score_forecast
    \/ add_ratings_to_forecast

SpecScoring == InitScoring /\ [][NextScoring]_vars

\* -------------------------------------------------------------- aggregators
\* half_daily_scoring.py and daily_scoring.py. Timestamps are seconds since
\* the epoch as the providers deliver them (UTC, no timezone); a date is a
\* number of days since the epoch, a time of day a number of seconds.

MaxHours == 3

Hour == 3600

Day == 24 * Hour

\* timestamp.date() and timestamp.time()
DateOf(timestamp) == timestamp \div Day

TimeOfDay(timestamp) == timestamp % Day

\* classify_half_day
classify_half_day(timestamp) ==
    IF TimeOfDay(timestamp) < 13 * Hour THEN "morning" ELSE "afternoon"

\* lines 57-69 (40-52 of daily_scoring.py): date -> the sunrise and sunset of
\* its daily-weather row, as times of day
DaylightTimes(daily_weather) ==
    [date \in DOMAIN daily_weather |->
        [sunrise |-> TimeOfDay(daily_weather[date].sunrise),
         sunset |-> TimeOfDay(daily_weather[date].sunset)]]

\* is_daylight of half_daily_scoring.py
half_day_is_daylight(timestamp, daylight_times) ==
    LET date == DateOf(timestamp)
    IN  IF date \notin DOMAIN daylight_times
        THEN TRUE
        ELSE /\ daylight_times[date].sunrise <= TimeOfDay(timestamp)
             /\ TimeOfDay(timestamp) <= daylight_times[date].sunset

\* is_daylight of daily_scoring.py
daily_is_daylight(timestamp, daylight_times) ==
    LET date_key == DateOf(timestamp)
    IN  IF date_key \notin DOMAIN daylight_times
        THEN 6 * Hour <= TimeOfDay(timestamp) /\ TimeOfDay(timestamp) <= 18 * Hour
        ELSE /\ daylight_times[date_key].sunrise <= TimeOfDay(timestamp)
             /\ TimeOfDay(timestamp) <= daylight_times[date_key].sunset

RECURSIVE SumPoints(_, _)
SumPoints(scored_data, hours) ==
    IF hours = {} THEN 0
    ELSE LET h == CHOOSE x \in hours : TRUE
         IN  scored_data[h] + SumPoints(scored_data, hours \ {h})

\* mean().round(2) of n values of the given sum, in hundredths; numpy rounds
\* a tie to the even neighbour
MeanRound2(sum, n) ==
    LET q == (100 * sum) \div n
        r == (100 * sum) % n
    IN  IF 2 * r < n THEN q
        ELSE IF 2 * r > n THEN q + 1
        ELSE IF q % 2 = 0 THEN q ELSE q + 1

\* lines 72-77: the hours that pass the daylight filter
HalfDayRetained(scored_data, daily_weather) ==
    {t \in DOMAIN scored_data : half_day_is_daylight(t, DaylightTimes(daily_weather))}

\* daily_scoring.py lines 55-60
DailyRetained(scored_data, daily_weather) ==
    {t \in DOMAIN scored_data : daily_is_daylight(t, DaylightTimes(daily_weather))}

\* score_half_days, lines 80-100: one row per group of retained hours
score_half_days(scored_data, daily_weather) ==
    LET kept == HalfDayRetained(scored_data, daily_weather)
        groups == {<<DateOf(t), classify_half_day(t)>> : t \in kept}
    IN  {LET hours == {t \in kept : DateOf(t) = g[1] /\ classify_half_day(t) = g[2]}
         IN  [date |-> g[1], half_day |-> g[2],
              avg_total_points |->
                  MeanRound2(SumPoints(scored_data, hours), Cardinality(hours))] :
         g \in groups}

\* score_daily_averages, lines 63-86: one row per date of retained hours
score_daily_averages(scored_data, daily_weather) ==
    LET kept == DailyRetained(scored_data, daily_weather)
    IN  {LET hours == {t \in kept : DateOf(t) = date}
         IN  [date |-> date,
              avg_total_points |->
                  MeanRound2(SumPoints(scored_data, hours), Cardinality(hours))] :
         date \in {DateOf(t) : t \in kept}}

\* the spot's UTC offset in hours: Africa/Casablanca or Europe/Lisbon in
\* winter, Europe/Paris, Asia/Jakarta
Offsets == {0, 1, 7}

\* the local clock hours of the scored rows, all of local day 2
LocalHours == {5, 6, 7, 13, 18, 20}

\* local time of day on local day `date` as a timestamp
AtLocal(date, time, offset) == date * Day + time - offset * Hour

Sunrises == {6 * Hour, 6 * Hour + 1, 6 * Hour + 30 * 60}

Sunsets == {18 * Hour, 18 * Hour - 1, 19 * Hour + 30 * 60}

\* the daily-weather rows of the UTC dates in `dates`, each with the sunrise
\* and sunset of that local day at the spot
DailyWeatherRows(dates, sunrise, sunset, offset) ==
    [date \in dates |-> [sunrise |-> AtLocal(date, sunrise, offset),
                         sunset |-> AtLocal(date, sunset, offset)]]

ScoredInputs(offset) ==
    UNION {[{AtLocal(2, h * Hour, offset) : h \in H} -> {4, 7}] :
              H \in {G \in SUBSET LocalHours : Cardinality(G) <= MaxHours}}

\* Scenario D: six scored hours of one date, sunrise 06:30, sunset 19:30
ScenarioD ==
    [scored_data |-> (5 * Hour + 2 * Day :> 8) @@ (7 * Hour + 2 * Day :> 6)
                       @@ (9 * Hour + 2 * Day :> 4) @@ (13 * Hour + 2 * Day :> 5)
                       @@ (17 * Hour + 2 * Day :> 7) @@ (20 * Hour + 2 * Day :> 9),
     daily_weather |-> DailyWeatherRows({2}, 6 * Hour + 30 * 60, 19 * Hour + 30 * 60, 0)]

AggregatorCalc(offset, scored_data, daily_weather) ==
    [stage |-> "scored_data", offset |-> offset, scored_data |-> scored_data,
     daily_weather |-> daily_weather, retained |-> {}, scores |-> {}]

InitDaylight ==
    /\ StoreIdle
    /\ \/ \E offset \in Offsets :
          \E scored_data \in ScoredInputs(offset), dates \in SUBSET {1, 2},
             sunrise \in Sunrises, sunset \in Sunsets :
             calc = AggregatorCalc(offset, scored_data,
                                   DailyWeatherRows(dates, sunrise, sunset, offset))
       \/ calc = AggregatorCalc(0, ScenarioD.scored_data, ScenarioD.daily_weather)

\* get_half_day_scores -> score_half_days
CallScoreHalfDays ==
    /\ calc.stage = "scored_data"
    /\ calc' = [calc EXCEPT
                  !.stage = "half_day",
                  !.retained = HalfDayRetained(calc.scored_data, calc.daily_weather),
                  !.scores = score_half_days(calc.scored_data, calc.daily_weather)]
    /\ StoreFrame

\* get_daily_scores -> score_daily_averages
CallScoreDailyAverages ==
    /\ calc.stage = "scored_data"
    /\ calc' = [calc EXCEPT
                  !.stage = "daily",
                  !.retained = DailyRetained(calc.scored_data, calc.daily_weather),
                  !.scores = score_daily_averages(calc.scored_data, calc.daily_weather)]
    /\ StoreFrame

NextDaylight ==
    \/ CallScoreHalfDays
    \/ CallScoreDailyAverages

SpecDaylight == InitDaylight /\ [][NextDaylight]_vars

\* --------------------------------------------------------------- read views
\* get_daily_scores and get_detailed_forecast of api/forecast_api.py, on the
\* rows of one spot. Times are whole hours since a midnight, heights tenths
\* of a metre.

\* the spot names of a request: a catalog spot and a name the catalog lacks
RequestSpots == {"a", "atlantis"}

ViewHours == {27, 31, 32}

MarineHours == {30, 31, 33}

SeaLevels == {NaN, 12, 15}

\* line 170 and line 262: return 1.5, 'Mid'
TideFallback == 15

\* lines 183-215: max(0.1, ...) of the simulated tide of the hour, a function
\* of the hour and the spot the model does not compute
SimulatedTides == {1, 20, 51}

Distance(a, b) == IF a >= b THEN a - b ELSE b - a

\* lines 174-175: idxmin of the time differences, the first row of the
\* smallest difference
ClosestHour(marine_data, target_time) ==
    CHOOSE h \in DOMAIN marine_data :
        \A g \in DOMAIN marine_data :
            \/ Distance(h, target_time) < Distance(g, target_time)
            \/ Distance(h, target_time) = Distance(g, target_time) /\ h <= g

\* get_tide_for_hour: the heights it can return for the hour
get_tide_for_hour(marine_data, target_time) ==
    IF DOMAIN marine_data = {} THEN {TideFallback}
    ELSE LET closest_row == marine_data[ClosestHour(marine_data, target_time)]
         IN  IF closest_row # NaN THEN {closest_row} ELSE SimulatedTides

\* lines 329-354: the hours of the date between sunrise_hour and sunset_hour
DayHours(scored_forecast, date_obj, sunrise_hour, sunset_hour) ==
    {t \in scored_forecast :
        /\ t \div 24 = date_obj
        /\ sunrise_hour <= t % 24
        /\ t % 24 <= sunset_hour}

NoResponse == [code |-> 0, error |-> FALSE, rows |-> {}]

InitViews ==
    /\ StoreIdle
    /\ \E spot_name \in RequestSpots,
          daily_scores \in SUBSET {1}, half_day_scores \in SUBSET {1},
          scored_forecast \in SUBSET ViewHours,
          M \in SUBSET MarineHours, sunrise_hour \in {6, 8} :
          \E marine_data \in [M -> SeaLevels] :
             calc = [stage |-> "request", view |-> "none", spot_name |-> spot_name,
                     daily_scores |-> daily_scores,
                     half_day_scores |-> half_day_scores,
                     scored_forecast |-> scored_forecast,
                     marine_data |-> marine_data,
                     sunrise_hour |-> sunrise_hour, sunset_hour |-> 19,
                     response |-> NoResponse]

\* get_daily_scores of the API
ViewDailyScores ==
    /\ calc.stage = "request"
    /\ calc' = [calc EXCEPT
                  !.stage = "response",
                  !.view = "daily",
                  !.response =
                      IF calc.spot_name \notin Spots
                      THEN [code |-> 404, error |-> TRUE, rows |-> {}]
                      ELSE IF calc.daily_scores = {}
                      THEN [code |-> 404, error |-> TRUE, rows |-> {}]
                      ELSE [code |-> 200, error |-> FALSE,
                            rows |-> {[date |-> d] : d \in calc.daily_scores}]]
    /\ StoreFrame

\* get_detailed_forecast of the API
ViewDetailedForecast ==
    /\ calc.stage = "request"
    /\ \E tides \in [calc.scored_forecast -> {NaN, TideFallback} \cup SeaLevels \cup SimulatedTides] :
        /\ \A t \in calc.scored_forecast :
              tides[t] \in get_tide_for_hour(calc.marine_data, t)
        /\ calc' = [calc EXCEPT
                      !.stage = "response",
                      !.view = "detailed",
                      !.response =
                          IF calc.spot_name \notin Spots
                          THEN [code |-> 404, error |-> TRUE, rows |-> {}]
                          ELSE IF calc.half_day_scores = {} /\ calc.scored_forecast = {}
                          THEN [code |-> 404, error |-> TRUE, rows |-> {}]
                          ELSE IF calc.half_day_scores # {} /\ calc.scored_forecast # {}
                          THEN [code |-> 200, error |-> FALSE,
                                rows |-> UNION {
                                    {[date |-> d, time |-> t, tide_height |-> tides[t]] :
                                        t \in DayHours(calc.scored_forecast, d,
                                                       calc.sunrise_hour,
                                                       calc.sunset_hour)} :
                                    d \in calc.half_day_scores}]
                          ELSE [code |-> 200, error |-> FALSE, rows |-> {}]]
    /\ StoreFrame

NextViews ==
    \/ ViewDailyScores
    \/ ViewDetailedForecast

SpecViews == InitViews /\ [][NextViews]_vars

\* ------------------------------------------ two passes on one database
\* Two calls of SurfDataFetcher._update_spot_data for the same spot, each on
\* its own connection to the same database file (a scheduled update_all_spots
\* beside the API's fetch_fresh_data or ensure_fresh_data, which call
\* force_update_spot).  Nothing but SQLite's own per-transaction lock stands
\* between them: every SELECT reads what is committed at that moment into a
\* local frame, every store call commits its rows and then its stamp.
Passes == {1, 2}

SharedSpot == Catalog[1]

NoFrame == {}

\* the locals of a pass before its first statement
NewPass(f) ==
    [pc |-> "begin", force |-> f, needs |-> NoFlags,
     weather_df |-> NoFrame, marine_df |-> NoFrame,
     scored_df |-> NoFrame, daily_weather_df |-> NoFrame]

\* one pass takes a step, the other and the entry point of the model idle
PassStep(p, local) ==
    /\ calc' = [calc EXCEPT !.pass[p] = local]
    /\ UNCHANGED <<now, run, op, force, todo, cur, pc, needs, status, attempted,
                   snap, summary, clean, nfail>>

At(p, where) == calc.stage = "concurrent" /\ calc.pass[p].pc = where

Goto(p, next) == [calc.pass[p] EXCEPT !.pc = next]

\* the store both passes find: rows of an earlier run, the provider one run
\* on; raw entries fresh or stale one by one, the derived entries together
InitConcurrent ==
    LET raw == Fetched(0)
        scored == InnerJoinScore(raw, raw)
        t == UpdateThreshold + 1
    IN  /\ \E f1, f2 \in BOOLEAN :
              calc = [stage |-> "concurrent",
                      pass |-> [p \in Passes |-> NewPass(IF p = 1 THEN f1 ELSE f2)]]
        /\ now = t
        /\ run = 1
        /\ rows = [l \in Layers |-> [s \in Spots |->
                      CASE l \in RawLayers -> raw
                        [] l = "scored_forecast" -> scored
                        [] l = "half_day" -> get_half_day_scores(scored, raw)
                        [] OTHER -> get_daily_scores(scored, raw)]]
        /\ \E w, m, d, sc \in StampsAt(t, {1, UpdateThreshold + 1}) :
              ledger = [s \in Spots |-> [l \in Layers |->
                          CASE l = "weather" -> w
                            [] l = "marine" -> m
                            [] l = "daily" -> d
                            [] OTHER -> sc]]
        /\ op = "idle"
        /\ force = FALSE
        /\ todo = <<>>
        /\ cur = NoSpot
        /\ pc = "idle"
        /\ needs = NoFlags
        /\ status = NoStatus
        /\ attempted = {}
        /\ snap = NoSnap
        /\ summary = {}
        /\ clean = {}
        /\ nfail = 0

\* lines 78-92: the needs_* flags
ConcCheckNeeds(p) ==
    /\ At(p, "begin")
    /\ PassStep(p, [calc.pass[p] EXCEPT
                      !.needs = NeedsOf(SharedSpot, calc.pass[p].force, ledger),
                      !.pc = "weather"])
    /\ UNCHANGED <<rows, ledger>>

\* lines 99-104: fetch_weather_data
ConcFetchWeather(p) ==
    /\ At(p, "weather")
    /\ LET n == calc.pass[p].needs
       IN  PassStep(p, Goto(p, IF n["weather"] THEN "weather_rows"
                               ELSE IF n["daily"] THEN "daily_rows"
                               ELSE "marine"))
    /\ UNCHANGED <<rows, ledger>>

\* lines 106-108: db.store_weather_data, its rows
ConcStoreWeatherRows(p) ==
    /\ At(p, "weather_rows")
    /\ rows' = store_weather_data(SharedSpot, fetch_weather_data)
    /\ PassStep(p, Goto(p, "weather_stamp"))
    /\ UNCHANGED ledger

\* lines 111-113: db.store_daily_weather, its rows
ConcStoreDailyRows(p) ==
    /\ At(p, "daily_rows")
    /\ rows' = store_daily_weather(SharedSpot, fetch_weather_data)
    /\ PassStep(p, Goto(p, "daily_stamp"))
    /\ UNCHANGED ledger

\* lines 122-134: fetch_marine_data and db.store_marine_data, its rows
ConcFetchMarine(p) ==
    /\ At(p, "marine")
    /\ IF calc.pass[p].needs["marine"]
       THEN /\ rows' = store_marine_data(SharedSpot, fetch_marine_data)
            /\ PassStep(p, Goto(p, "marine_stamp"))
       ELSE /\ PassStep(p, Goto(p, "scored"))
            /\ UNCHANGED rows
    /\ UNCHANGED ledger

\* the layer a pass is about to stamp, and where it goes from there
StampOf(p) ==
    LET n == calc.pass[p].needs
    IN  CASE At(p, "weather_stamp") ->
                <<"weather", IF n["daily"] THEN "daily_rows" ELSE "marine">>
          [] At(p, "daily_stamp") -> <<"daily", "marine">>
          [] At(p, "marine_stamp") -> <<"marine", "scored">>
          [] At(p, "scored_stamp") -> <<"scored_forecast", "half_day">>
          [] At(p, "half_day_stamp") -> <<"half_day", "daily_scores">>
          [] At(p, "daily_scores_stamp") -> <<"daily_scores", "done">>
          [] OTHER -> <<>>

\* _update_last_fetch at the end of each store call
ConcStamp(p) ==
    /\ StampOf(p) # <<>>
    /\ ledger' = update_last_fetch(SharedSpot, StampOf(p)[1])
    /\ PassStep(p, Goto(p, StampOf(p)[2]))
    /\ UNCHANGED rows

\* lines 139-142: db.get_weather_data
ConcReadWeather(p) ==
    /\ At(p, "scored")
    /\ IF calc.pass[p].needs["scored_forecast"]
       THEN PassStep(p, [calc.pass[p] EXCEPT !.weather_df = rows["weather"][SharedSpot],
                                             !.pc = "scored_marine"])
       ELSE PassStep(p, Goto(p, "half_day"))
    /\ UNCHANGED <<rows, ledger>>

\* lines 143-145: db.get_marine_data and the emptiness test
ConcReadMarine(p) ==
    /\ At(p, "scored_marine")
    /\ LET marine_df == rows["marine"][SharedSpot]
       IN  IF HasRawData(calc.pass[p].weather_df, marine_df)
           THEN PassStep(p, [calc.pass[p] EXCEPT !.marine_df = marine_df,
                                                 !.pc = "scored_rows"])
           ELSE PassStep(p, [calc.pass[p] EXCEPT !.weather_df = NoFrame,
                                                 !.pc = "half_day"])
    /\ UNCHANGED <<rows, ledger>>

\* lines 146-158: pd.merge, score_forecast and db.store_scored_forecast, its rows
ConcStoreScored(p) ==
    /\ At(p, "scored_rows")
    /\ rows' = store_scored_forecast(SharedSpot,
                   InnerJoinScore(calc.pass[p].weather_df, calc.pass[p].marine_df))
    /\ PassStep(p, [calc.pass[p] EXCEPT !.weather_df = NoFrame, !.marine_df = NoFrame,
                                        !.pc = "scored_stamp"])
    /\ UNCHANGED ledger

\* lines 172, 193: db.get_scored_forecast of an aggregate step
ConcReadScored(p) ==
    /\ \E step \in {"half_day", "daily_scores"} :
          /\ At(p, step)
          /\ IF calc.pass[p].needs[step]
             THEN PassStep(p, [calc.pass[p] EXCEPT
                                 !.scored_df = rows["scored_forecast"][SharedSpot],
                                 !.pc = IF step = "half_day" THEN "half_day_daily"
                                        ELSE "daily_scores_daily"])
             ELSE PassStep(p, Goto(p, IF step = "half_day" THEN "daily_scores" ELSE "done"))
    /\ UNCHANGED <<rows, ledger>>

\* lines 173-175, 194-196: db.get_daily_weather and the emptiness test
ConcReadDailyWeather(p) ==
    /\ \E step \in {"half_day", "daily_scores"} :
          /\ At(p, IF step = "half_day" THEN "half_day_daily" ELSE "daily_scores_daily")
          /\ LET daily_weather_df == rows["daily"][SharedSpot]
             IN  IF HasScoredData(calc.pass[p].scored_df, daily_weather_df)
                 THEN PassStep(p, [calc.pass[p] EXCEPT
                                     !.daily_weather_df = daily_weather_df,
                                     !.pc = IF step = "half_day" THEN "half_day_rows"
                                            ELSE "daily_scores_rows"])
                 ELSE PassStep(p, [calc.pass[p] EXCEPT
                                     !.scored_df = NoFrame,
                                     !.pc = IF step = "half_day" THEN "daily_scores"
                                            ELSE "done"])
    /\ UNCHANGED <<rows, ledger>>

\* lines 176-178: get_half_day_scores and db.store_half_day_scores, its rows
ConcStoreHalfDay(p) ==
    /\ At(p, "half_day_rows")
    /\ rows' = store_half_day_scores(SharedSpot,
                   get_half_day_scores(calc.pass[p].scored_df, calc.pass[p].daily_weather_df))
    /\ PassStep(p, [calc.pass[p] EXCEPT !.scored_df = NoFrame, !.daily_weather_df = NoFrame,
                                        !.pc = "half_day_stamp"])
    /\ UNCHANGED ledger

\* lines 197-199: get_daily_scores and db.store_daily_scores, its rows
ConcStoreDailyScores(p) ==
    /\ At(p, "daily_scores_rows")
    /\ rows' = store_daily_scores(SharedSpot,
                   get_daily_scores(calc.pass[p].scored_df, calc.pass[p].daily_weather_df))
    /\ PassStep(p, [calc.pass[p] EXCEPT !.scored_df = NoFrame, !.daily_weather_df = NoFrame,
                                        !.pc = "daily_scores_stamp"])
    /\ UNCHANGED ledger

NextConcurrent ==
    \E p \in Passes :
        \/ ConcCheckNeeds(p)
        \/ ConcFetchWeather(p)
        \/ ConcStoreWeatherRows(p)
        \/ ConcStoreDailyRows(p)
        \/ ConcFetchMarine(p)
        \/ ConcStamp(p)
        \/ ConcReadWeather(p)
        \/ ConcReadMarine(p)
        \/ ConcStoreScored(p)
        \/ ConcReadScored(p)
        \/ ConcReadDailyWeather(p)
        \/ ConcStoreHalfDay(p)
        \/ ConcStoreDailyScores(p)

SpecConcurrent == InitConcurrent /\ [][NextConcurrent]_vars

\* ------------------------------------------------------------- properties
\* the step in which the store call for `layer` commits its rows
RowsCommitStep(layer) == pc \notin StampPc[layer] /\ pc' \in StampPc[layer]

\* the step in which the store call for `layer` commits its ledger stamp
StampCommitStep(layer) ==
    pc \in StampPc[layer] /\ pc' \notin StampPc[layer] /\ nfail' = nfail

\* a ledger entry as the freshness rule reads it: absent, or older than the
\* threshold
IsStale(stamp) == stamp = Absent \/ now - stamp > UpdateThreshold

\* C1: a layer store call for spot A leaves the rows of every other spot in
\* that layer, and all rows of every other layer, as they were.
C1_StoreFrame ==
    [][\A l \in Layers :
          RowsCommitStep(l) =>
              \A l2 \in Layers, s2 \in Spots :
                  <<l2, s2>> # <<l, cur>> => rows'[l2][s2] = rows[l2][s2]]_vars

\* C2: refresh passes keep every scored row backed by an hourly weather row
\* and an hourly marine row of the same spot and timestamp: a spot whose
\* scored rows were all backed when a pass began still has them backed when
\* the pass ends, whether or not a step of the pass failed.
C2_ScoredHaveRaw ==
    pc = "done" => snap.covered \subseteq {s \in Spots : HasRawRows(s)}

\* C3: in a non-forced pass of _update_spot_data, against the ledger as it
\* was when the pass began, scoring is attempted iff scored, hourly weather
\* or hourly marine is stale; the half-day step iff half_day is stale or
\* scoring is attempted; the daily-scores step iff daily_scores is stale or
\* scoring is attempted.
C3_Cascade ==
    (pc = "done" /\ op \in FetcherOps /\ ~force) =>
        LET stale(l) == IsStale(snap.ledger[l])
            scoring == "scored_forecast" \in attempted
        IN  /\ scoring <=>
                (stale("scored_forecast") \/ stale("weather") \/ stale("marine"))
            /\ "half_day" \in attempted <=> (stale("half_day") \/ scoring)
            /\ "daily_scores" \in attempted <=> (stale("daily_scores") \/ scoring)

\* a non-forced pass has ended that scored again although the scored layer
\* itself was fresh: a raw layer was stale
C3_Witness ==
    /\ pc = "done" /\ op \in FetcherOps /\ ~force
    /\ "scored_forecast" \in attempted
    /\ ~IsStale(snap.ledger["scored_forecast"])
    /\ "half_day" \in attempted /\ ~IsStale(snap.ledger["half_day"])

\* C4: within one pass, a layer rewritten by the pass has every layer derived
\* from it re-derived by the same pass, when the derived step's inputs are
\* non-empty and the step does not fail: weather or marine rewritten implies
\* scored rewritten; scored or daily weather rewritten implies both
\* aggregates rewritten.
C4_Rederived ==
    pc = "done" =>
        LET done(l) == status.updated[l]
            raw_ok == HasRawData(rows["weather"][cur], rows["marine"][cur])
            scored_ok == HasScoredData(rows["scored_forecast"][cur], rows["daily"][cur])
            failed(tags) == status.errors \cap tags # {}
        IN  /\ ((done("weather") \/ done("marine")) /\ raw_ok
                  /\ ~failed({"scoring", "missing_raw"}))
               => done("scored_forecast")
            /\ ((done("scored_forecast") \/ done("daily")) /\ scored_ok
                  /\ ~failed({"half_day", "missing_half_day"}))
               => done("half_day")
            /\ ((done("scored_forecast") \/ done("daily")) /\ scored_ok
                  /\ ~failed({"daily_scores", "missing_daily_scores"}))
               => done("daily_scores")

\* C5: update_all_spots is never left by an exception, and the dictionary it
\* returns has an entry for every spot of the catalog.
C5_NeverAborted ==
    op = "update_all_spots" =>
        /\ pc # "raised"
        /\ pc = "returned" => summary = Spots

\* a step of the pass that finds `missing` inputs: nothing is written or
\* stamped, the flag stays false, an error is added, the pass goes on at `next`
SkippedWithError(layer, at, missing, next) ==
    (pc = at /\ needs[layer] /\ missing) =>
        /\ rows' = rows
        /\ ledger' = ledger
        /\ ~status'.updated[layer]
        /\ status.errors \subseteq status'.errors
        /\ status'.errors # status.errors
        /\ pc' = next

\* C6: a step whose input layer has no rows for the spot (hourly weather or
\* hourly marine for scoring, scored rows for the two aggregators) writes no
\* rows, stamps nothing, leaves its flag false, appends an error, and the
\* pass continues with the next step.
C6_SkipOnMissingInput ==
    [][/\ SkippedWithError("scored_forecast", "scored",
              rows["weather"][cur] = {} \/ rows["marine"][cur] = {}, "half_day")
       /\ SkippedWithError("half_day", "half_day",
              rows["scored_forecast"][cur] = {}, "daily_scores")
       /\ SkippedWithError("daily_scores", "daily_scores",
              rows["scored_forecast"][cur] = {}, "done")]_vars

\* a pass has ended in which all three steps were skipped for missing input,
\* with hourly marine rows present and hourly weather rows absent
C6_Witness ==
    /\ pc = "done"
    /\ {"missing_raw", "missing_half_day", "missing_daily_scores"} \subseteq status.errors
    /\ rows["weather"][cur] = {} /\ rows["marine"][cur] # {}

\* C7: a non-forced pass that begins right after a pass for the same spot
\* ended without error attempts no step: no provider call, no store write,
\* every flag false, every layer's rows and ledger entry as at its start.
C7_SecondPassIdle ==
    (pc = "done" /\ ~force /\ snap.wasClean) =>
        /\ attempted = {}
        /\ status.updated = NoFlags
        /\ \A l \in Layers : rows[l][cur] = snap.rows[l]
        /\ ledger[cur] = snap.ledger

\* a non-forced pass has ended that followed an error-free pass for the spot
\* whose rows it found stored
C7_Witness ==
    /\ pc = "done" /\ ~force /\ snap.wasClean
    /\ snap.rows["scored_forecast"] # {}

\* C8: no committed state shows the rows of (spot, layer) replaced by a store
\* call while the ledger entry of (spot, layer) still has its previous value.
C8_RowsAndStampAtomic ==
    \A l \in Layers : ~(pc \in StampPc[l] /\ ledger[cur][l] = snap.ledger[l])

\* a ledger entry that is set stays set and does not decrease in this step
LedgerAdvances(s, l) ==
    ledger[s][l] # Absent => (ledger'[s][l] # Absent /\ ledger'[s][l] >= ledger[s][l])

\* C9 as stated: over store calls, refresh passes and clear_cache, no ledger
\* entry moves backwards or returns to absent.
C9_LedgerMonotone ==
    [][\A s \in Spots, l \in Layers : LedgerAdvances(s, l)]_vars

\* C9: over store calls and refresh passes no ledger entry moves backwards or
\* returns to absent; clear_cache, run between entry points, returns all six
\* entries of each spot it clears to absent and deletes the spot's raw rows.
C9_LedgerMonotoneUnlessCleared ==
    [][\A s \in Spots :
          \/ \A l \in Layers : LedgerAdvances(s, l)
          \/ /\ op = "idle" /\ op' = "idle"
             /\ \A l \in Layers : ledger'[s][l] = Absent
             /\ \A l \in RawLayers : rows'[l][s] = {}]_vars

\* a pass has stamped anew an entry that was already set when it began,
\* beside an entry it left at its earlier stamp
C9_Witness ==
    /\ cur \in Spots
    /\ \E l \in Layers : snap.ledger[l] # Absent /\ ledger[cur][l] > snap.ledger[l]
    /\ \E l \in Layers : snap.ledger[l] # Absent /\ ledger[cur][l] = snap.ledger[l]

\* C10: a store call for layer L of spot S changes the ledger entry of (S, L)
\* and no other: its rows commit leaves the ledger as it is, its stamp sets
\* (S, L) to the current time and leaves every other entry.
C10_OneLedgerEntry ==
    [][\A l \in Layers :
          /\ RowsCommitStep(l) => ledger' = ledger
          /\ StampCommitStep(l) =>
                \A s2 \in Spots, l2 \in Layers :
                    ledger'[s2][l2] =
                        IF <<s2, l2>> = <<cur, l>> THEN now ELSE ledger[s2][l2]]_vars

\* daily weather has just been stamped at a later time than the entries of
\* the spot's other layers and of the other spot, which are set
C10_Witness ==
    /\ cur \in Spots
    /\ status.updated["daily"] /\ ledger[cur]["daily"] = now
    /\ ledger[cur]["daily_scores"] \notin {Absent, now}
    /\ \E s \in Spots \ {cur} : ledger[s]["daily"] \notin {Absent, now}

\* C11: needs_update is true iff the entry is absent or its age is strictly
\* greater than the threshold; an entry aged exactly the threshold is fresh.
C11_StaleIffOlder ==
    \A s \in Spots, l \in Layers, th \in 0..(UpdateThreshold + 1) :
        needs_update(s, l, th) <=>
            (ledger[s][l] = Absent \/ now - ledger[s][l] > th)

\* a non-forced pass has ended that found hourly weather aged exactly the
\* threshold and did not fetch it
C11_Witness ==
    /\ pc = "done" /\ ~force
    /\ snap.ledger["weather"] = now - UpdateThreshold
    /\ "weather" \notin attempted

\* the ledger of scenario F: weather aged 7 h, marine 2 h, scored and
\* half-day 1 h, at the start of a non-forced pass that ended without error
ScenarioF ==
    /\ pc = "done" /\ ~force /\ status.errors = {}
    /\ snap.ledger["weather"] = now - 7
    /\ snap.ledger["marine"] = now - 2
    /\ snap.ledger["scored_forecast"] = now - 1
    /\ snap.ledger["half_day"] = now - 1

Updated == {l \in Layers : status.updated[l]}

SharedDates(a, b) == (a.start_date .. a.end_date) \cap (b.start_date .. b.end_date)

\* C13: no two windows select_optimal_windows returns share more than
\* max_overlap_days (2) calendar dates, whatever the rows and the preferences.
C13_MaxOverlap ==
    calc.stage \in {"sorted", "returned"} =>
        \A i, j \in 1..Len(calc.selected) :
            i # j => Cardinality(SharedDates(calc.selected[i], calc.selected[j]))
                        <= MaxOverlapDays

\* two windows that share exactly two dates were returned, and a candidate
\* was left out
C13_Witness ==
    /\ calc.stage = "returned"
    /\ Len(calc.result) < Len(calc.windows)
    /\ \E i, j \in 1..Len(calc.result) :
          i # j /\ Cardinality(SharedDates(calc.result[i], calc.result[j])) = MaxOverlapDays

\* C14: the returned windows are in the order avg_score descending, then
\* consistency ascending: no window comes after one it beats on avg_score, or
\* equals on avg_score and beats on consistency.
C14_ReturnedInSortOrder ==
    calc.stage = "returned" =>
        \A i, j \in 1..Len(calc.result) :
            i < j => /\ ~AvgGreater(calc.result[j], calc.result[i])
                     /\ ~(AvgEqual(calc.result[j], calc.result[i])
                          /\ MoreConsistent(calc.result[j], calc.result[i]))

\* C15: every returned window, also through select_weekend_windows, reports
\* as days the number of calendar dates from start_date to end_date.
C15_DaysIsDateSpan ==
    calc.stage = "returned" =>
        \A i \in 1..Len(calc.result) :
            calc.result[i].days = calc.result[i].end_date - calc.result[i].start_date + 1

\* C16: a returned long-weekend trip that starts on the Saturday of a selected
\* weekend W and ends after W's Sunday has added days of mean >= 6.0 and an
\* extended mean strictly above W's avg_score.
C16_ExtensionPredicates ==
    calc.stage = "trips" =>
        \A i \in 1..Len(calc.trips), j \in 1..Len(calc.base_weekends) :
            LET t == calc.trips[i]
                W == calc.base_weekends[j]
                first == W.end_date + 1
            IN  (t.start_date = W.start_date /\ t.end_date > W.end_date) =>
                    /\ RangeRows(calc.daily, first, t.end_date) > 0
                    /\ RangeTotal(calc.daily, first, t.end_date)
                          >= AddedMin * RangeRows(calc.daily, first, t.end_date)
                    /\ RangeTotal(calc.daily, W.start_date, t.end_date) * W.n
                          > W.total * RangeRows(calc.daily, W.start_date, t.end_date)

\* the sum of the four component points of the scored row
RawTotal ==
    calc.points.swell_direction_points + calc.points.wind_points
        + calc.points.wave_height_points + calc.points.wave_period_points

InArc(d, lo, width) == width >= 360 \/ (d - lo) % 360 <= width

\* the width of a range modulo 360
ArcWidth(r) == (r[2] - r[1]) % 360

\* C18: score_swell_direction is 0 inside the range, -1 outside it but inside
\* the range widened by 30 degrees on each side, -10 otherwise, both ranges
\* taken modulo 360.
C18_SwellPoints ==
    calc.stage = "swell" =>
        LET d == calc.direction
            r == calc.ideal_range
        IN  calc.points =
                IF InArc(d, r[1], ArcWidth(r)) THEN 0
                ELSE IF InArc(d, r[1] - Buffer, ArcWidth(r) + 2 * Buffer) THEN -1
                ELSE -10

\* wrap-aware membership with inclusive endpoints
Inside(d, r) ==
    IF r[1] <= r[2] THEN r[1] <= d /\ d <= r[2] ELSE d >= r[1] \/ d <= r[2]

\* C19: the core test of score_swell_direction, the favorable test of
\* score_wind_direction_speed and get_wind_relationship all decide membership
\* of the direction in the range wrap-aware and with inclusive endpoints.
C19_InclusiveWrapAware ==
    /\ calc.stage = "swell" =>
          (calc.points = 0 <=> Inside(calc.direction, calc.ideal_range))
    /\ calc.stage = "wind" =>
          (calc.favorable <=> Inside(calc.direction, calc.ideal_range))
    /\ calc.stage = "relationship" =>
          (calc.relationship = "favorable" <=> Inside(calc.direction, calc.ideal_range))

C19_Witness ==
    /\ calc.stage = "relationship"
    /\ calc.ideal_range = <<340, 60>>
    /\ calc.direction = 340
    /\ calc.relationship = "favorable"

\* Scenario A: wave 0.914 m from 290, period 12 s, wind 10 kn from 60, swell
\* range (260,340), wind range (45,135)
ScenarioA ==
    /\ calc.row = [wave_direction |-> 290, wind_angle |-> 60, wind_strength |-> 10,
                   wave_size |-> 914, wave_period |-> 24]
    /\ calc.spot_details = [swell_dir_range |-> <<260, 340>>,
                            wind_dir_range |-> <<45, 135>>]

\* C20 as stated: Scenario A scores swell 0, wind +2, height 4, period +1,
\* total 7, rating "Good", wind relationship "favorable".
C20_ScenarioA ==
    (calc.stage = "rated" /\ ScenarioA) =>
        /\ calc.points = [swell_direction_points |-> 0, wind_points |-> 2,
                          wave_height_points |-> 4, wave_period_points |-> 1]
        /\ calc.total_points = 7
        /\ calc.surf_rating = "Good"
        /\ calc.wind_relationship = "favorable"

\* C20 amended: 0.914 m is 2.9987 ft, below 3 ft, so Scenario A scores swell
\* 0, wind +2, height 3, period +1, total 6, rating "Small", wind
\* relationship "favorable".
C20_ScenarioA_Amended ==
    (calc.stage = "rated" /\ ScenarioA) =>
        /\ calc.points = [swell_direction_points |-> 0, wind_points |-> 2,
                          wave_height_points |-> 3, wave_period_points |-> 1]
        /\ calc.total_points = 6
        /\ calc.surf_rating = "Small"
        /\ calc.wind_relationship = "favorable"

C20_Witness == calc.stage = "rated" /\ ScenarioA

\* the favorable-wind lexicon as listed, first match wins; feet in units of
\* 1e-8, the period in half seconds
FavorableLexicon(ft, period) ==
    IF ft < Ft(1) THEN "No surf"
    ELSE IF ft < Ft(3) THEN "Small"
    ELSE IF ft >= Ft(7) /\ period > 38 THEN "Epic"
    ELSE IF ft >= Ft(7) /\ period > 30 THEN "Firing"
    ELSE IF ft > Ft(5) /\ period > 26 THEN "Pumping"
    ELSE IF ft >= Ft(3) /\ period > 22 THEN "Good"
    ELSE IF ft >= Ft(3) /\ period >= 18 /\ period <= 22 THEN "Fun"
    ELSE IF ft >= Ft(3) /\ period < 18 THEN "Fair"
    ELSE "Small"

\* C21: for favorable wind the rating of a row with wave height and period
\* is the first matching entry of the listed lexicon: at 3 ft or more, a
\* period in [9,11] gives "Fun" and a period below 9 gives "Fair".
C21_FavorableLexicon ==
    (/\ calc.stage = "rated"
     /\ calc.wind_relationship = "favorable"
     /\ calc.row.wave_size # NaN
     /\ calc.row.wave_period # NaN) =>
        calc.surf_rating = FavorableLexicon(Feet(calc.row.wave_size), calc.row.wave_period)

\* at least one of the five scorer inputs of the row is missing: its column
\* is absent or its value is NaN
InputMissing ==
    \E c \in DOMAIN Measurements : c \notin DOMAIN calc.row \/ calc.row[c] = NaN

\* C22: a row with at least one missing scorer input is rated "Unknown" with
\* wind relationship "unknown" and has component points of 0.
C22_MissingInputUnknown ==
    (calc.stage = "rated" /\ InputMissing) =>
        /\ calc.surf_rating = "Unknown"
        /\ calc.wind_relationship = "unknown"
        /\ calc.points = [swell_direction_points |-> 0, wind_points |-> 0,
                          wave_height_points |-> 0, wave_period_points |-> 0]

\* the local clock reading of a timestamp at the spot of the call
LocalTime(timestamp) == timestamp + calc.offset * Hour

\* the timestamp lies in [sunrise, sunset] of the daily-weather row of its
\* local date
InDaylightWindow(timestamp) ==
    LET date == DateOf(LocalTime(timestamp))
    IN  /\ date \in DOMAIN calc.daily_weather
        /\ calc.daily_weather[date].sunrise <= timestamp
        /\ timestamp <= calc.daily_weather[date].sunset

\* C23: with a daily-weather row for every date, both aggregators retain an
\* hour iff its local time lies in [sunrise, sunset] of the row of its date,
\* whatever the spot's offset.
C23_RetainedIffDaylight ==
    (calc.stage \in {"half_day", "daily"} /\ DOMAIN calc.daily_weather = {1, 2}) =>
        calc.retained = {t \in DOMAIN calc.scored_data : InDaylightWindow(t)}

\* C24: an hour whose date has no daily-weather row is retained by both
\* aggregators iff its time lies in [06:00, 18:00].
C24_DefaultWindow ==
    calc.stage \in {"half_day", "daily"} =>
        \A t \in DOMAIN calc.scored_data :
            DateOf(t) \notin DOMAIN calc.daily_weather =>
                (t \in calc.retained <=>
                    (6 * Hour <= TimeOfDay(t) /\ TimeOfDay(t) <= 18 * Hour))

\* the half of the day of a timestamp by the spot's local clock
LocalHalf(timestamp) == classify_half_day(LocalTime(timestamp))

\* C25: score_half_days has exactly one row per (date, half) with a retained
\* hour, morning being the hours before 13:00 local, and each row's
\* avg_total_points is the mean, to two decimals, of the retained hours of
\* that date and half.
C25_HalfDayRows ==
    calc.stage = "half_day" =>
        calc.scores =
            {LET hours == {t \in calc.retained :
                              /\ DateOf(LocalTime(t)) = g[1]
                              /\ LocalHalf(t) = g[2]}
             IN  [date |-> g[1], half_day |-> g[2],
                  avg_total_points |->
                      MeanRound2(SumPoints(calc.scored_data, hours), Cardinality(hours))] :
             g \in {<<DateOf(LocalTime(t)), LocalHalf(t)>> : t \in calc.retained}}

\* the spot of the request has no rows for the view that answered
NoStoredRows ==
    IF calc.view = "daily" THEN calc.daily_scores = {}
    ELSE calc.half_day_scores = {} /\ calc.scored_forecast = {}

\* C26: both read views answer NotFound for a spot the catalog lacks, and an
\* empty sequence without an error for a catalog spot that has no rows.
C26_NotFoundOrEmpty ==
    calc.stage = "response" =>
        /\ calc.spot_name \notin Spots =>
              calc.response.code = 404 /\ calc.response.error
        /\ (calc.spot_name \in Spots /\ NoStoredRows) =>
              /\ calc.response.code = 200
              /\ ~calc.response.error
              /\ calc.response.rows = {}

\* C27: in the detailed view the tide height of an hour is the sea level of a
\* marine row nearest in time, and missing when that row has none or the spot
\* has no marine rows.
C27_TideNearestOrMissing ==
    (calc.stage = "response" /\ calc.view = "detailed") =>
        \A e \in calc.response.rows :
            IF DOMAIN calc.marine_data = {} THEN e.tide_height = NaN
            ELSE \E h \in DOMAIN calc.marine_data :
                    /\ \A g \in DOMAIN calc.marine_data :
                          Distance(h, e.time) <= Distance(g, e.time)
                    /\ e.tide_height = calc.marine_data[h]

\* C28: every scored row is computed from the weather row and the marine row
\* of its own timestamp; an hour that only one raw layer has gives no scored
\* row.
C28_JoinedOnTimestamp ==
    \A s \in Spots :
        \A r \in rows["scored_forecast"][s] :
            r.ts # Absent /\ r.mts = r.ts

\* C29: when a pass of SurfDataFetcher._update_spot_data rewrote a raw layer
\* and its scoring step failed or was skipped, the next non-forced pass
\* attempts scoring again: a non-forced pass that begins on scored rows that
\* are not the scores of the stored raw rows sets needs_scored.
C29_ScoringRetried ==
    [][(/\ op = "update_all_spots" /\ ~force
        /\ pc = "begin" /\ pc' = "weather"
        /\ HasRawData(rows["weather"][cur], rows["marine"][cur])
        /\ rows["scored_forecast"][cur] #
               InnerJoinScore(rows["weather"][cur], rows["marine"][cur]))
          => needs'["scored_forecast"]]_vars

\* both passes have run to their end
BothDone == calc.stage = "concurrent" /\ \A p \in Passes : calc.pass[p].pc = "done"

\* the scored rows an aggregate was computed from
ScoredOf(aggregate) ==
    {[ts |-> r.date, w |-> r.w, m |-> r.m, mts |-> r.mts] : r \in aggregate}

\* C30: after two concurrent passes for one spot have both finished, the
\* scored rows are the scores of the stored weather and marine rows and each
\* aggregate is the aggregation of the stored scored rows.
C30_DerivedFromFinalRows ==
    BothDone =>
        LET scored == rows["scored_forecast"][SharedSpot]
        IN  /\ scored = InnerJoinScore(rows["weather"][SharedSpot], rows["marine"][SharedSpot])
            /\ ScoredOf(rows["half_day"][SharedSpot]) = scored
            /\ ScoredOf(rows["daily_scores"][SharedSpot]) = scored
====
